---- MODULE Spec2Model ----
(***************************************************************************)
(* Scene graph and reconciliation engine of the tiling window manager:     *)
(* the container tree, the insertion planner of manage_window, the         *)
(* reconciliation pass platform_sync and the animation tasks it spawns.    *)
(***************************************************************************)
EXTENDS Integers, Sequences, FiniteSets, TLC

VARIABLES
  containers,         \* the container tree, by container id
  pending_sync,       \* WmState::pending_sync, the ledger
  animation_handles,  \* WmState::animation_handles: native handle -> task (0: no entry)
  tasks,              \* every animation task spawned so far
  cfg,                \* the UserConfig handed to the commands
  os,                 \* the window system: frames, stacking order, valid handles
  lastPos,            \* per handle, the last set_position call issued for it
  lastTarget,         \* per handle, what the latest pass that redrew it computed
  passLog,            \* the platform calls and events of the step just taken, in order
  syncResult,         \* the outcome of the platform_sync call just run
  manageResult,       \* the outcome of the manage_window call just run
  drag_state,         \* WmState::drag_state
  is_focus_synced,    \* WmState::is_focus_synced
  has_initialized,    \* WmState::has_initialized
  is_paused,          \* WmState::is_paused
  prev_effects_window,  \* WmState::prev_effects_window
  border_tasks,       \* the delayed border writes spawned and not yet run, oldest first
  lastBorder,         \* per handle, the border colour its latest effects update chose
  input               \* what the step just taken was called with

vars == <<containers, pending_sync, animation_handles, tasks, cfg, os,
          lastPos, lastTarget, passLog, syncResult, manageResult,
          drag_state, is_focus_synced, has_initialized, is_paused,
          prev_effects_window, border_tasks, lastBorder, input>>

-----------------------------------------------------------------------------
(* Bounds of the model. *)

MaxWindows == 3
MaxSplits == MaxWindows - 2

Handles == 1..MaxWindows

Root == 0
MonitorId == Root + 1
WorkspaceId == MonitorId + 1
FirstFreeId == WorkspaceId + 1
\* The second workspace of the monitor, once it is activated.
OtherWorkspaceId == FirstFreeId + MaxWindows + MaxSplits
Ids == 0..OtherWorkspaceId
NoId == 0 - 1
NoHandle == 0

-----------------------------------------------------------------------------
(* Geometry primitives (wm-common Rect and Point). *)

Rect(l, t, r, b) == [left |-> l, top |-> t, right |-> r, bottom |-> b]
Pt(x, y) == [x |-> x, y |-> y]

Width(rc) == rc.right - rc.left
Height(rc) == rc.bottom - rc.top

Abs(n) == IF n < 0 THEN -n ELSE n

\* Integer division truncating toward zero, as Rust's `/` on integers and
\* `as i32` on a float do.
TruncDiv(a, b) == IF a >= 0 THEN a \div b ELSE -((-a) \div b)

contains_point(rc, p) ==
  /\ rc.left <= p.x /\ p.x < rc.right
  /\ rc.top <= p.y /\ p.y < rc.bottom

center_point(rc) ==
  Pt(rc.left + TruncDiv(Width(rc), 2), rc.top + TruncDiv(Height(rc), 2))

\* The rect of size w x h centred on the point c.
centered_at(c, w, h) ==
  Rect(c.x - TruncDiv(w, 2), c.y - TruncDiv(h, 2),
       c.x - TruncDiv(w, 2) + w, c.y - TruncDiv(h, 2) + h)

translate_to_center(rc, outer) ==
  centered_at(center_point(outer), Width(rc), Height(rc))

Min(a, b) == IF a < b THEN a ELSE b

clamp_size(rc, maxW, maxH) ==
  IF Width(rc) <= maxW /\ Height(rc) <= maxH THEN rc
  ELSE centered_at(center_point(rc), Min(Width(rc), maxW), Min(Height(rc), maxH))

MonitorRect == Rect(0, 0, 12, 12)

\* The frame the window system reports for a window before it is managed.
NativeFrame(h) == IF h % 2 = 1 THEN Rect(0, 0, 6, 6) ELSE Rect(4, 4, 10, 8)

NoPoint == Pt(0 - 1, 0 - 1)

\* The cursor positions the window system may report (NoPoint: the query fails).
CursorPoints == {Pt(6, 6), Pt(10, 6), Pt(6, 10), Pt(2, 5), NoPoint}

-----------------------------------------------------------------------------
(* Window states (wm-common WindowState). *)

Tiling == [tag |-> "Tiling", shown_on_top |-> FALSE, maximized |-> FALSE]
Floating(onTop) == [tag |-> "Floating", shown_on_top |-> onTop, maximized |-> FALSE]
Fullscreen(maxi, onTop) == [tag |-> "Fullscreen", shown_on_top |-> onTop, maximized |-> maxi]
Minimized == [tag |-> "Minimized", shown_on_top |-> FALSE, maximized |-> FALSE]
NoState == [tag |-> "None", shown_on_top |-> FALSE, maximized |-> FALSE]

-----------------------------------------------------------------------------
(* Container tree. *)

NoRect == Rect(0, 0, 0, 0)

Blank ==
  [kind |-> "none", parent |-> NoId, children |-> <<>>, focus |-> <<>>,
   dir |-> "Horizontal", handle |-> NoHandle, state |-> NoState, prev_state |-> NoState,
   display_state |-> "Shown", floating_placement |-> NoRect,
   has_pending_dpi_adjustment |-> FALSE]

NewNode(k) == [Blank EXCEPT !.kind = k]

Range(sq) == {sq[i] : i \in 1..Len(sq)}

IndexOf(sq, x) == CHOOSE i \in 1..Len(sq) : sq[i] = x

Without(sq, x) == SelectSeq(sq, LAMBDA y : y # x)

InsertAt(sq, i, x) == SubSeq(sq, 1, i) \o <<x>> \o SubSeq(sq, i + 1, Len(sq))

ReplaceIn(sq, x, y) == [i \in 1..Len(sq) |-> IF sq[i] = x THEN y ELSE sq[i]]

RECURSIVE FlatMap(_, _)
FlatMap(F(_), sq) == IF sq = <<>> THEN <<>> ELSE F(Head(sq)) \o FlatMap(F, Tail(sq))

is_window(t, c) == t[c].kind = "window"
is_tiling_window(t, c) == is_window(t, c) /\ t[c].state.tag = "Tiling"

\* CommonGetters::index, zero-based.
index(t, c) == IndexOf(t[t[c].parent].children, c) - 1

child_count(t, c) == Len(t[c].children)

is_detached(t, c) == t[c].parent = NoId

\* Pre-order traversal below c.
RECURSIVE descendants(_, _)
descendants(t, c) ==
  LET Sub(k) == <<k>> \o descendants(t, k)
  IN FlatMap(Sub, t[c].children)

self_and_descendants(t, c) == <<c>> \o descendants(t, c)

\* The leaves below c, following the focus order of every container.
RECURSIVE descendant_focus_order(_, _)
descendant_focus_order(t, c) ==
  LET Sub(k) == IF t[k].children = <<>> THEN <<k>> ELSE descendant_focus_order(t, k)
  IN FlatMap(Sub, t[c].focus)

RECURSIVE workspace(_, _)
workspace(t, c) ==
  IF c = NoId THEN NoId
  ELSE IF t[c].kind = "workspace" THEN c
  ELSE workspace(t, t[c].parent)

monitors(t) == t[Root].children

displayed_workspace(t, m) == IF t[m].focus = <<>> THEN NoId ELSE t[m].focus[1]

is_displayed(t, ws) ==
  /\ t[ws].parent # NoId
  /\ displayed_workspace(t, t[ws].parent) = ws

windows(t) == SelectSeq(descendants(t, Root), LAMBDA c : is_window(t, c))

FirstOr(sq, none) == IF sq = <<>> THEN none ELSE sq[1]

focused_container(t) == FirstOr(descendant_focus_order(t, Root), NoId)

\* The children of c that take part in the tiling layout.
tiling_children(t, c) ==
  SelectSeq(t[c].children,
            LAMBDA k : t[k].kind = "split" \/ is_tiling_window(t, k))

\* Share k of n (zero-based) of the rect pr along the direction dir.
share_of(pr, dir, k, n) ==
  IF dir = "Horizontal"
  THEN Rect(pr.left + TruncDiv(k * Width(pr), n), pr.top,
            pr.left + TruncDiv((k + 1) * Width(pr), n), pr.bottom)
  ELSE Rect(pr.left, pr.top + TruncDiv(k * Height(pr), n),
            pr.right, pr.top + TruncDiv((k + 1) * Height(pr), n))

\* Geometry projection: equal shares of the parent's rect along its direction.
RECURSIVE to_rect(_, _)
to_rect(t, c) ==
  CASE t[c].kind \in {"monitor", "workspace"} -> MonitorRect
    [] t[c].kind = "window" /\ t[c].state.tag = "Fullscreen" -> MonitorRect
    [] t[c].kind = "window" /\ t[c].state.tag \in {"Floating", "Minimized"} ->
         t[c].floating_placement
    [] OTHER ->
         IF t[c].parent = NoId THEN NoRect
         ELSE share_of(to_rect(t, t[c].parent), t[t[c].parent].dir,
                       IndexOf(tiling_children(t, t[c].parent), c) - 1,
                       Len(tiling_children(t, t[c].parent)))

\* The smallest container id not in use.
FreeIds(t) ==
  {i \in Ids : i >= FirstFreeId /\ i < OtherWorkspaceId /\ t[i].kind = "none"}
NewId(t) == CHOOSE i \in FreeIds(t) : \A j \in FreeIds(t) : i <= j

\* attach_container: insert at min(index, len); the child goes to the tail of
\* the parent's focus order.
attach_container(t, child, parent, idx) ==
  [t EXCEPT ![child].parent = parent,
            ![parent].children = InsertAt(@, Min(idx, Len(@)), child),
            ![parent].focus = Append(@, child)]

\* set_focused_descendant(c, None): c becomes the most recently focused child
\* along the whole chain of its ancestors.
RECURSIVE set_focused_descendant(_, _)
set_focused_descendant(t, c) ==
  IF t[c].parent = NoId THEN t
  ELSE set_focused_descendant(
         [t EXCEPT ![t[c].parent].focus = <<c>> \o Without(@, c)], t[c].parent)

\* wrap_in_split_container with a single child: the split takes the child's
\* place in the parent's child list and focus order.
wrap_in_split_container(t, split, parent, child) ==
  [t EXCEPT ![parent].children = ReplaceIn(@, child, split),
            ![parent].focus = ReplaceIn(@, child, split),
            ![split].parent = parent,
            ![split].children = <<child>>,
            ![split].focus = <<child>>,
            ![child].parent = split]

set_tiling_direction(t, c, d) == [t EXCEPT ![c].dir = d]

\* A split left with one child is replaced by that child in its parent, at
\* the same place of the child list and of the focus order.
collapsed(t, split) ==
  IF t[split].kind = "split" /\ child_count(t, split) = 1
  THEN [t EXCEPT ![t[split].parent].children = ReplaceIn(@, split, t[split].children[1]),
                 ![t[split].parent].focus = ReplaceIn(@, split, t[split].children[1]),
                 ![t[split].children[1]].parent = t[split].parent,
                 ![split] = Blank]
  ELSE t

detach_container(t, c) ==
  collapsed([t EXCEPT ![t[c].parent].children = Without(@, c),
                      ![t[c].parent].focus = Without(@, c),
                      ![c].parent = NoId],
            t[c].parent)

-----------------------------------------------------------------------------
(* The calls and events a step leaves in passLog. *)

ZNormal == [kind |-> "Normal", after |-> NoHandle]
ZTopMost == [kind |-> "TopMost", after |-> NoHandle]
ZAfterWindow(h) == [kind |-> "AfterWindow", after |-> h]

Call(op, h, z, rc, vis) ==
  [op |-> op, handle |-> h, z_order |-> z, rect |-> rc, is_visible |-> vis]

Log(s, call) == [s EXCEPT !.passLog = Append(@, call)]

\* emit_event sending whatever it is given.
emit_event_always(s, event, h) ==
  Log(s, Call(event, h, ZNormal, NoRect, FALSE))

\* WmState::emit_event: nothing is sent before populate has finished, and
\* while the manager is paused only PauseChanged is sent.
emit_event(s, event, h) ==
  IF s.has_initialized /\ (~s.is_paused \/ event = "PauseChanged")
  THEN Log(s, Call(event, h, ZNormal, NoRect, FALSE))
  ELSE s

\* No window, for prev_effects_window. A window that has left the tree keeps
\* its handle and has no id.
NoWindow == [id |-> NoId, handle |-> NoHandle]

-----------------------------------------------------------------------------
(* The ledger (PendingSync). *)

EmptyLedger ==
  [focus_update |-> FALSE, cursor_jump |-> FALSE,
   focused_effect_update |-> FALSE, all_effects_update |-> FALSE,
   redraw |-> {}, reorder |-> {}]

clear(p) == EmptyLedger

queue_focus_change(p) == [p EXCEPT !.focus_update = TRUE]
queue_focused_effect_update(p) == [p EXCEPT !.focused_effect_update = TRUE]
queue_all_effects_update(p) == [p EXCEPT !.all_effects_update = TRUE]
queue_workspace_to_reorder(p, ws) == [p EXCEPT !.reorder = @ \cup {ws}]
queue_container_to_redraw(p, c) == [p EXCEPT !.redraw = @ \cup {c}]
queue_cursor_jump(p) == [p EXCEPT !.cursor_jump = TRUE]

-----------------------------------------------------------------------------
(* manage_window and the insertion planner. *)

\* What the window system reports about a native window when it is managed.
NativeKinds == {"normal", "fixed_size", "fullscreen", "minimized"}

\* The platform query of manage_window that finds the handle gone, if any.
FailPoints == {"none", "is_minimized", "frame_position", "has_dpi_difference"}

window_state_to_create(c, native) ==
  CASE native = "minimized" -> Minimized
    [] native = "fullscreen" ->
         Fullscreen(c.fullscreen_maximized, c.fullscreen_shown_on_top)
    [] native = "fixed_size" -> Floating(c.floating_shown_on_top)
    [] OTHER -> IF c.initial_state = "Tiling" THEN Tiling
                ELSE Floating(c.floating_shown_on_top)

Target(okv, t, p, i) == [ok |-> okv, t |-> t, parent |-> p, index |-> i]

\* The quadrant of the cursor, from its offsets to the centre of the rect.
dir_of(delta_x, delta_y, width, height) ==
  IF Abs(delta_x) * height > Abs(delta_y) * width
  THEN "Horizontal" ELSE "Vertical"

desired_dir(rc, mouse_pos) ==
  dir_of(mouse_pos.x - center_point(rc).x, mouse_pos.y - center_point(rc).y,
         Width(rc), Height(rc))

after_of(dir, delta_x, delta_y) ==
  IF dir = "Horizontal" THEN delta_x > 0 ELSE delta_y > 0

insert_after(rc, mouse_pos) ==
  after_of(desired_dir(rc, mouse_pos),
           mouse_pos.x - center_point(rc).x, mouse_pos.y - center_point(rc).y)

\* The new split keeps the direction of the parent it is put into.
wrapped_in_parent_dir(t, split, dir, parent, focused) ==
  wrap_in_split_container(
    [t EXCEPT ![split] = [NewNode("split") EXCEPT !.dir = t[parent].dir]],
    split, parent, focused)

\* The new split that takes the place of the focused window.
wrapped(t, split, dir, parent, focused) ==
  wrap_in_split_container(
    [t EXCEPT ![split] = [NewNode("split") EXCEPT !.dir = dir]],
    split, parent, focused)

\* The quadrant rule appending to the parent when the directions agree.
quadrant_target_appending(t, focused, parent, dir, after) ==
  IF t[parent].dir = dir
  THEN Target(TRUE, t, parent, child_count(t, parent))
  ELSE IF child_count(t, parent) = 1
  THEN Target(TRUE, set_tiling_direction(t, parent, dir), parent,
              IF after THEN 1 ELSE 0)
  ELSE Target(TRUE, wrapped(t, NewId(t), dir, parent, focused), NewId(t),
              IF after THEN 1 ELSE 0)

\* The quadrant rule leaving the direction of a single-child parent alone.
quadrant_target_keeping_dir(t, focused, parent, dir, after) ==
  IF t[parent].dir = dir
  THEN Target(TRUE, t, parent,
              IF after THEN index(t, focused) + 1 ELSE index(t, focused))
  ELSE IF child_count(t, parent) = 1
  THEN Target(TRUE, t, parent, IF after THEN 1 ELSE 0)
  ELSE Target(TRUE, wrapped(t, NewId(t), dir, parent, focused), NewId(t),
              IF after THEN 1 ELSE 0)

\* The three cases of the quadrant rule, for the parent of the focused window.
quadrant_target(t, focused, parent, dir, after) ==
  IF t[parent].dir = dir
  THEN Target(TRUE, t, parent,
              IF after THEN index(t, focused) + 1 ELSE index(t, focused))
  ELSE IF child_count(t, parent) = 1
  THEN Target(TRUE, set_tiling_direction(t, parent, dir), parent,
              IF after THEN 1 ELSE 0)
  ELSE Target(TRUE, wrapped(t, NewId(t), dir, parent, focused), NewId(t),
              IF after THEN 1 ELSE 0)

\* No anchor looked for beyond the focused container.
fallback_sibling_focused_only(t, focused, focused_workspace) ==
  IF is_tiling_window(t, focused) THEN focused ELSE NoId

\* The anchor of the fallback: the focused tiling window, else the first
\* tiling window in the focus order of the focused workspace.
fallback_sibling(t, focused, focused_workspace) ==
  IF is_tiling_window(t, focused) THEN focused
  ELSE FirstOr(SelectSeq(descendant_focus_order(t, focused_workspace),
                         LAMBDA c : is_tiling_window(t, c)), NoId)

sibling_target(t, sibling, focused_workspace) ==
  IF sibling # NoId
  THEN Target(TRUE, t, t[sibling].parent, index(t, sibling) + 1)
  ELSE Target(TRUE, t, focused_workspace, child_count(t, focused_workspace))

fallback_target(window_state, t, focused, focused_workspace) ==
  IF window_state = Tiling
  THEN sibling_target(t, fallback_sibling(t, focused, focused_workspace),
                      focused_workspace)
  ELSE Target(TRUE, t, focused_workspace, child_count(t, focused_workspace))

in_focused_rect(window_state, t, focused, mouse_pos) ==
  /\ window_state = Tiling
  /\ is_tiling_window(t, focused)
  /\ mouse_pos # NoPoint
  /\ contains_point(to_rect(t, focused), mouse_pos)

target_from(window_state, t, mouse_pos, focused, focused_workspace) ==
  IF focused = NoId \/ focused_workspace = NoId
  THEN Target(FALSE, t, NoId, 0)
  ELSE IF in_focused_rect(window_state, t, focused, mouse_pos)
  THEN quadrant_target(t, focused, t[focused].parent,
                       desired_dir(to_rect(t, focused), mouse_pos),
                       insert_after(to_rect(t, focused), mouse_pos))
  ELSE fallback_target(window_state, t, focused, focused_workspace)

insertion_target(window_state, t, mouse_pos) ==
  target_from(window_state, t, mouse_pos, focused_container(t),
              workspace(t, focused_container(t)))

nearest_monitor(t) == FirstOr(monitors(t), NoId)

Created(okv, t, w) == [ok |-> okv, t |-> t, window |-> w]

floating_placement(c, frame, ws_rect, is_same_workspace) ==
  clamp_size(
    IF ~is_same_workspace \/ c.floating_centered
    THEN translate_to_center(frame, ws_rect) ELSE frame,
    TruncDiv(Width(ws_rect) * 9, 10), TruncDiv(Height(ws_rect) * 9, 10))

new_window(h, window_state, placement) ==
  [NewNode("window") EXCEPT
     !.handle = h, !.state = window_state, !.floating_placement = placement]

\* The attach and the DPI query that ends create_window.
attached(t, w, in) ==
  IF in.fail = "has_dpi_difference" THEN Created(FALSE, t, NoId)
  ELSE Created(TRUE, [t EXCEPT ![w].has_pending_dpi_adjustment = in.dpi], w)

\* create_window once the target is chosen.
create_at(t, c, frame, in, target, target_workspace, nearest_workspace) ==
  IF ~target.ok THEN Created(FALSE, t, NoId)
  ELSE IF target_workspace = NoId \/ in.fail = "frame_position"
  THEN Created(FALSE, target.t, NoId)
  ELSE attached(
         attach_container(
           [target.t EXCEPT ![NewId(target.t)] =
              new_window(in.handle, window_state_to_create(c, in.native),
                         floating_placement(c, frame,
                                            to_rect(target.t, target_workspace),
                                            nearest_workspace = target_workspace))],
           NewId(target.t), target.parent, target.index),
         NewId(target.t), in)

create_in(t, c, frame, in, target, nearest_workspace) ==
  create_at(t, c, frame, in, target, workspace(target.t, target.parent),
            nearest_workspace)

\* create_window. in: [handle, native, target_parent, mouse_pos, fail, dpi].
create_window(t, c, frame, in) ==
  IF \/ nearest_monitor(t) = NoId
     \/ displayed_workspace(t, nearest_monitor(t)) = NoId
     \/ in.fail = "is_minimized"
  THEN Created(FALSE, t, NoId)
  ELSE create_in(t, c, frame, in,
                 IF in.target_parent # NoId
                 THEN Target(TRUE, t, in.target_parent, 0)
                 ELSE insertion_target(window_state_to_create(c, in.native), t,
                                       in.mouse_pos),
                 displayed_workspace(t, nearest_monitor(t)))

\* The window itself queued for redraw, whatever its state.
queue_managed_redrawing_window(p, t, w) ==
  queue_container_to_redraw(
    queue_workspace_to_reorder(
      queue_focused_effect_update(queue_focus_change(p)), workspace(t, w)),
    w)

\* The queueing that ends manage_window, for the attached window w.
queue_managed(p, t, w) ==
  queue_container_to_redraw(
    queue_workspace_to_reorder(
      queue_focused_effect_update(queue_focus_change(p)), workspace(t, w)),
    IF t[w].state = Tiling THEN t[w].parent ELSE w)

\* run_window_rules for the Manage event. outcome "drop": a rule takes the
\* window out of the tree again; "keep": the window stays as it is.
run_window_rules(s, w, outcome) ==
  IF outcome = "drop"
  THEN [s EXCEPT !.containers = [detach_container(@, w) EXCEPT ![w] = Blank]]
  ELSE s

\* What manage_window does with the window the rules have left, if any.
ruled(s, w, h) ==
  IF s.containers[w].kind # "window"
  THEN [s EXCEPT !.manageResult = "dropped"]
  ELSE [emit_event(s, "WindowManaged", h)
          EXCEPT !.pending_sync = queue_managed(@, s.containers, w),
                 !.manageResult = "managed"]

managed_from(s, made, outcome) ==
  IF ~made.ok
  THEN [s EXCEPT !.containers = made.t, !.manageResult = "warned"]
  ELSE ruled(run_window_rules(
               [s EXCEPT !.containers = set_focused_descendant(made.t, made.window)],
               made.window, outcome),
             made.window, made.t[made.window].handle)

\* manage_window on the state s = [containers, pending_sync, ...].
manage_window(s, in) ==
  managed_from(s, create_window(s.containers, s.cfg, s.os.frame[in.handle], in),
               in.rules)

NoInput == [op |-> "none"]

\* The outcome variables describe the step just taken only.
fresh(s) ==
  [s EXCEPT !.passLog = <<>>, !.syncResult = "none", !.manageResult = "none",
            !.input = NoInput]

-----------------------------------------------------------------------------
(* The window system, as far as the platform calls of this model reach it. *)

\* Stacking: AfterWindow(a) puts h directly beneath a; Normal raises h to the
\* top of the non-topmost band; TopMost raises h above everything.
restack_in(o, h, z, rest) ==
  CASE z.kind = "TopMost" ->
         [o EXCEPT !.stack = <<h>> \o rest, !.topmost = @ \cup {h}]
    [] z.kind = "Normal" ->
         [o EXCEPT !.stack = SelectSeq(rest, LAMBDA x : x \in o.topmost)
                               \o <<h>>
                               \o SelectSeq(rest, LAMBDA x : x \notin o.topmost),
                   !.topmost = @ \ {h}]
    [] OTHER ->
         IF z.after \in Range(rest)
         THEN [o EXCEPT !.stack = InsertAt(rest, IndexOf(rest, z.after), h),
                        !.topmost = IF z.after \in o.topmost
                                    THEN @ \cup {h} ELSE @ \ {h}]
         ELSE o

restack(o, h, z) == restack_in(o, h, z, Without(o.stack, h))

\* A call on a handle that is no longer valid fails and changes nothing.
os_set_z_order(o, h, z) == IF h \in o.alive THEN restack(o, h, z) ELSE o

os_set_position(o, h, rc, z) ==
  IF h \in o.alive THEN [restack(o, h, z) EXCEPT !.frame[h] = rc] ELSE o

\* refused: the window whose set_foreground was rejected, until a later
\* set_foreground is honoured.
os_set_foreground(o, h, accepted) ==
  IF (h = NoHandle \/ h \in o.alive) /\ accepted
  THEN [o EXCEPT !.foreground = h, !.refused = {}]
  ELSE [o EXCEPT !.refused = {h}]

NoCall == [rect |-> NoRect, is_visible |-> FALSE, z_order |-> ZNormal,
           state |-> NoState, hide_method |-> "none",
           has_pending_dpi |-> FALSE, by |-> 0 - 1]

PosCall(st, rc, z, vis, hide, dpi, by) ==
  [rect |-> rc, is_visible |-> vis, z_order |-> z, state |-> st,
   hide_method |-> hide, has_pending_dpi |-> dpi, by |-> by]

NoTarget == [rect |-> NoRect, is_visible |-> FALSE, set |-> FALSE]

-----------------------------------------------------------------------------
(* Animation tasks. *)

NoTask == 0

TaskIds == 1..(2 * MaxWindows + 2)

SpawnedTask(h, st, rc, z, vis, dpi, c) ==
  [handle |-> h, status |-> "running", pc |-> "spawned", i |-> 0, steps |-> 0,
   start_rect |-> NoRect, end_rect |-> rc, window_state |-> st, z_order |-> z,
   is_visible |-> vis, hide_method |-> c.hide_method,
   has_pending_dpi |-> dpi,
   duration_ms |-> c.duration_ms, fps |-> c.fps, writes |-> 0]

\* The abort that leaves the task running.
abort_ignored(ts, k) == ts

\* JoinHandle::abort: a task that has not finished is never polled again.
abort(ts, k) ==
  IF k \in DOMAIN ts /\ ts[k].status = "running"
  THEN [ts EXCEPT ![k].status = "cancelled"] ELSE ts

\* The entry of the handle is taken out of the map; its task runs on.
forget_previous(s, h) == [s EXCEPT !.animation_handles[h] = NoTask]

\* The entry of the handle is taken out of the map and its task aborted.
abort_previous(s, h) ==
  IF s.animation_handles[h] # NoTask
  THEN [s EXCEPT !.tasks = abort(@, s.animation_handles[h]),
                 !.animation_handles[h] = NoTask]
  ELSE s

FreeTaskId(ts) == CHOOSE k \in TaskIds \ DOMAIN ts : \A j \in TaskIds \ DOMAIN ts : k <= j

spawn_as(s, task, k) ==
  [s EXCEPT !.tasks = [j \in DOMAIN s.tasks \cup {k} |->
                         IF j = k THEN task ELSE s.tasks[j]],
            !.animation_handles[task.handle] = k]

\* task::spawn and the insert into the map.
spawn(s, task) == spawn_as(s, task, FreeTaskId(s.tasks))

\* Task records nothing refers to any more and that will never run again.
collectable(s) ==
  {k \in DOMAIN s.tasks :
     /\ s.tasks[k].status # "running"
     /\ \A h \in Handles : s.animation_handles[h] # k}

forget_finished(s) ==
  [s EXCEPT !.tasks = [k \in DOMAIN s.tasks \ collectable(s) |-> s.tasks[k]]]

-----------------------------------------------------------------------------
(* platform_sync: the reconciliation pass. *)

Reverse(sq) == [i \in 1..Len(sq) |-> sq[Len(sq) + 1 - i]]

focus_handle(t, focused) ==
  IF is_window(t, focused) THEN t[focused].handle ELSE NoHandle

set_foreground(s, native, accepted) ==
  [Log(s, Call("set_foreground", native, ZNormal, NoRect, FALSE))
     EXCEPT !.os = os_set_foreground(@, native, accepted)]

\* sync_focus. accepted: whether the window system honours set_foreground.
sync_focus(s, focused, accepted) ==
  emit_event(
    IF s.os.foreground # focus_handle(s.containers, focused)
    THEN set_foreground(s, focus_handle(s.containers, focused), accepted)
    ELSE s,
    "FocusChanged", focus_handle(s.containers, focused))

workspaces_to_reorder(s, focused) ==
  s.pending_sync.reorder
    \cup (IF s.pending_sync.focus_update
          THEN {workspace(s.containers, focused)} ELSE {})

\* The focused descendant of a workspace, if it is a window.
window_or_none(t, c) == IF c # NoId /\ is_window(t, c) THEN c ELSE NoId

focused_descendant(t, ws) ==
  window_or_none(t, FirstOr(descendant_focus_order(t, ws), NoId))

is_same_state(a, b) == a.tag = b.tag

\* The windows of one workspace that follow its focused descendant fd.
front_of(t, ws, fd) ==
  IF fd = NoId THEN {}
  ELSE {w \in Range(descendants(t, ws)) :
          /\ is_window(t, w)
          /\ t[w].state.tag \in {"Floating", "Tiling"}
          /\ is_same_state(t[w].state, t[fd].state)}

windows_to_bring_to_front(s, focused) ==
  UNION {front_of(s.containers, ws, focused_descendant(s.containers, ws)) :
           ws \in workspaces_to_reorder(s, focused)}

\* Every window below a queued container, in the tree or not.
windows_to_redraw_detached_too(s) ==
  UNION {{c \in Range(self_and_descendants(s.containers, r)) :
            is_window(s.containers, c)} :
         r \in s.pending_sync.redraw}

windows_to_redraw(s) ==
  UNION {{c \in Range(self_and_descendants(s.containers, r)) :
            ~is_detached(s.containers, c) /\ is_window(s.containers, c)} :
         r \in s.pending_sync.redraw}

\* Ascending position in the global focus order; a window that has no
\* position sorts first.
RECURSIVE SeqOfSet(_)
SeqOfSet(S) ==
  IF S = {} THEN <<>>
  ELSE LET x == CHOOSE y \in S : \A z \in S : y <= z
       IN <<x>> \o SeqOfSet(S \ {x})

\* The windows left in the order of their ids.
sorted_by_id(all, order) == SeqOfSet(all)

sorted_by_focus(all, order) ==
  SeqOfSet(all \ Range(order)) \o SelectSeq(order, LAMBDA c : c \in all)

\* The windows of the redraw set alone.
windows_redrawn_only(s, focused) ==
  sorted_by_focus(windows_to_redraw(s),
                  descendant_focus_order(s.containers, Root))

windows_to_update(s, focused) ==
  sorted_by_focus(windows_to_redraw(s) \cup windows_to_bring_to_front(s, focused),
                  descendant_focus_order(s.containers, Root))

\* The windows gone through in focus order, most recently focused first.
update_order_forward(s, focused) == windows_to_update(s, focused)

\* The order in which the pass goes through the windows.
update_order(s, focused) == Reverse(windows_to_update(s, focused))

\* Every window put beneath the focused descendant, that window included.
z_after_any(t, w, fd) ==
  IF fd = NoId THEN ZNormal ELSE ZAfterWindow(t[fd].handle)

z_after(t, w, fd) ==
  IF fd = NoId \/ fd = w THEN ZNormal ELSE ZAfterWindow(t[fd].handle)

\* The windows brought to the front z-ordered after the focused descendant,
\* shown on top or not.
z_order_front_first(t, w, should_bring_to_front) ==
  IF should_bring_to_front
  THEN IF focused_descendant(t, workspace(t, w)) \in {NoId, w} THEN ZNormal
       ELSE ZAfterWindow(t[focused_descendant(t, workspace(t, w))].handle)
  ELSE IF t[w].state.tag \in {"Floating", "Fullscreen"} /\ t[w].state.shown_on_top
  THEN ZTopMost
  ELSE ZNormal

z_order_for(t, w, should_bring_to_front) ==
  IF t[w].state.tag \in {"Floating", "Fullscreen"} /\ t[w].state.shown_on_top
  THEN ZTopMost
  ELSE IF should_bring_to_front
  THEN z_after(t, w, focused_descendant(t, workspace(t, w)))
  ELSE ZNormal

\* The transition completed by the pass that finds it under way.
next_display_state_completing(ds, displayed) ==
  CASE ds \in {"Hidden", "Hiding"} /\ displayed -> "Showing"
    [] ds = "Showing" /\ displayed -> "Shown"
    [] ds = "Hiding" /\ ~displayed -> "Hidden"
    [] ds \in {"Shown", "Showing"} /\ ~displayed -> "Hiding"
    [] OTHER -> ds

\* A window on its way out left to go when its workspace is displayed again.
next_display_state_from_rest(ds, displayed) ==
  CASE ds = "Hidden" /\ displayed -> "Showing"
    [] ds = "Shown" /\ ~displayed -> "Hiding"
    [] OTHER -> ds

next_display_state(ds, displayed) ==
  CASE ds \in {"Hidden", "Hiding"} /\ displayed -> "Showing"
    [] ds \in {"Shown", "Showing"} /\ ~displayed -> "Hiding"
    [] OTHER -> ds

\* A window that never had another state counted as entering fullscreen.
is_fullscreen_or_was(prev, st) ==
  \/ st.tag = "Fullscreen" /\ ~st.maximized
  \/ prev.tag = "Fullscreen"

is_transitioning_fullscreen(prev, st) ==
  \/ prev # NoState /\ st.tag = "Fullscreen" /\ ~st.maximized
  \/ prev.tag = "Fullscreen"

\* The position write of a redrawn window: an animation task when animations
\* are enabled and the window is visible, else one synchronous call.
position_window(s, h, st, dpi, rc, z, vis) ==
  IF s.cfg.animations_enabled /\ vis
  THEN spawn(Log(abort_previous(s, h), Call("spawn", h, z, rc, vis)),
             SpawnedTask(h, st, rc, z, vis, dpi, s.cfg))
  ELSE [Log(s, Call("set_position", h, z, rc, vis)) EXCEPT
          !.os = os_set_position(@, h, rc, z),
          !.lastPos[h] = PosCall(st, rc, z, vis, s.cfg.hide_method, dpi,
                                  NoTask)]

mark_fullscreen_step(s, h, prev, st) ==
  IF is_transitioning_fullscreen(prev, st)
  THEN Log(s, Call("mark_fullscreen", h, ZNormal, NoRect, st.tag = "Fullscreen"))
  ELSE s

taskbar_step(s, h, ds, vis) ==
  IF /\ s.cfg.hide_method = "Cloak"
     /\ ~s.cfg.show_all_in_taskbar
     /\ ds \in {"Showing", "Hiding"}
  THEN Log(s, Call("set_taskbar_visibility", h, ZNormal, NoRect, vis))
  ELSE s

is_visible(ds) == ds \in {"Showing", "Shown"}

\* The redraw of window w (node wn) once its display state ds is set.
redraw_window(s, wn, rc, z, ds) ==
  taskbar_step(
    mark_fullscreen_step(
      [position_window(s, wn.handle, wn.state, wn.has_pending_dpi_adjustment,
                       rc, z, is_visible(ds))
         EXCEPT !.lastTarget[wn.handle] =
                  [rect |-> rc, is_visible |-> is_visible(ds), set |-> TRUE]],
      wn.handle, wn.prev_state, wn.state),
    wn.handle, ds, is_visible(ds))

set_display_state(s, w, ds) == [s EXCEPT !.containers[w].display_state = ds]

failed(s) == [s EXCEPT !.syncResult = "error"]

\* The pass given up when the call fails.
reorder_window_aborting(s, h, z) ==
  IF h \in s.os.alive
  THEN [Log(s, Call("set_z_order", h, z, NoRect, FALSE)) EXCEPT
          !.os = os_set_z_order(@, h, z)]
  ELSE failed(Log(s, Call("set_z_order", h, z, NoRect, FALSE)))

\* set_z_order of a window that is only reordered; a failure is logged.
reorder_window(s, h, z) ==
  [Log(s, Call("set_z_order", h, z, NoRect, FALSE)) EXCEPT
     !.os = os_set_z_order(@, h, z)]

\* One turn of the loop of redraw_containers; ws is the window's workspace.
update_in(s, w, ws, only_reorder, z, rect_err) ==
  IF ws = NoId THEN failed(s)
  ELSE IF only_reorder THEN reorder_window(s, s.containers[w].handle, z)
  ELSE IF rect_err = s.containers[w].handle
  THEN failed(set_display_state(
                s, w, next_display_state(s.containers[w].display_state,
                                         is_displayed(s.containers, ws))))
  ELSE redraw_window(
         set_display_state(
           s, w, next_display_state(s.containers[w].display_state,
                                    is_displayed(s.containers, ws))),
         s.containers[w], to_rect(s.containers, w), z,
         next_display_state(s.containers[w].display_state,
                            is_displayed(s.containers, ws)))

update_window(s, w, to_redraw, to_front, rect_err) ==
  update_in(s, w, workspace(s.containers, w),
            w \in to_front /\ w \notin to_redraw,
            z_order_for(s.containers, w, w \in to_front), rect_err)

RECURSIVE update_windows(_, _, _, _, _)
update_windows(s, ws, to_redraw, to_front, rect_err) ==
  IF ws = <<>> \/ s.syncResult = "error" THEN s
  ELSE update_windows(update_window(s, Head(ws), to_redraw, to_front, rect_err),
                      Tail(ws), to_redraw, to_front, rect_err)

redraw_containers(s, focused, rect_err) ==
  update_windows(s, update_order(s, focused), windows_to_redraw(s),
                 windows_to_bring_to_front(s, focused), rect_err)

jump_cursor(s, focused) ==
  IF s.cfg.cursor_jump_trigger = "WindowFocus"
  THEN Log(s, Call("set_cursor_pos", NoHandle, ZNormal,
                   to_rect(s.containers, focused), FALSE))
  ELSE s

focus_step(s, focused, accepted) ==
  IF s.pending_sync.focus_update THEN sync_focus(s, focused, accepted) ELSE s

redraw_step(s, focused, rect_err) ==
  IF s.pending_sync.redraw # {} \/ s.pending_sync.reorder # {}
  THEN redraw_containers(s, focused, rect_err) ELSE s

cursor_step(s, focused) ==
  IF s.pending_sync.cursor_jump /\ s.cfg.cursor_jump_enabled
  THEN jump_cursor(s, focused) ELSE s

\* set_border_color; None puts the default border back. The result of the
\* call is dropped.
os_set_border_color(o, h, color) ==
  IF h \in o.alive THEN [o EXCEPT !.border[h] = color] ELSE o

\* Some(color) if the effect is enabled, else None.
border_color(effect) == IF effect.enabled THEN effect.color ELSE "default"

\* The border written at once, and a task spawned that writes it again after
\* 50 ms.
apply_border_effect(s, h, effect) ==
  [s EXCEPT !.os = os_set_border_color(@, h, border_color(effect)),
            !.border_tasks = Append(@, [handle |-> h,
                                        color |-> border_color(effect)]),
            !.lastBorder[h] = border_color(effect)]

apply_window_effects(s, h, is_focused) ==
  IF s.cfg.focused_border.enabled \/ s.cfg.other_border.enabled
  THEN apply_border_effect(
         Log(s, Call("apply_window_effects", h, ZNormal, NoRect, is_focused)),
         h, IF is_focused THEN s.cfg.focused_border ELSE s.cfg.other_border)
  ELSE Log(s, Call("apply_window_effects", h, ZNormal, NoRect, is_focused))

\* The body of the oldest delayed task once its 50 ms are over. The tasks
\* sleep equally long, so they wake in the order they were spawned.
reissue_border(s) ==
  [s EXCEPT !.os = os_set_border_color(@, Head(s.border_tasks).handle,
                                       Head(s.border_tasks).color),
            !.border_tasks = Tail(@)]

RECURSIVE apply_unfocused(_, _)
apply_unfocused(s, hs) ==
  IF hs = <<>> THEN s
  ELSE apply_unfocused(apply_window_effects(s, Head(hs), FALSE), Tail(hs))

\* The handles of the windows that get the effects of the other windows.
unfocused_windows(s, focused, prev) ==
  IF s.pending_sync.all_effects_update
  THEN [i \in 1..Len(SelectSeq(windows(s.containers), LAMBDA c : c # focused)) |->
          s.containers[SelectSeq(windows(s.containers),
                                 LAMBDA c : c # focused)[i]].handle]
  ELSE IF prev # NoWindow /\ prev.id # focused THEN <<prev.handle>>
  ELSE <<>>

focused_effects(s, focused) ==
  IF is_window(s.containers, focused)
  THEN [apply_window_effects(s, s.containers[focused].handle, TRUE)
          EXCEPT !.prev_effects_window =
                   [id |-> focused, handle |-> s.containers[focused].handle]]
  ELSE [s EXCEPT !.prev_effects_window = NoWindow]

effects_step(s, focused) ==
  IF s.pending_sync.focused_effect_update \/ s.pending_sync.all_effects_update
  THEN apply_unfocused(focused_effects(s, focused),
                       unfocused_windows(s, focused, s.prev_effects_window))
  ELSE s

\* The pass ends without clearing the ledger.
clear_step_skipped(s) == [s EXCEPT !.syncResult = "ok"]

\* The detached windows only the ledger held go with it.
released(t) ==
  [c \in DOMAIN t |->
     IF is_window(t, c) /\ is_detached(t, c) THEN Blank ELSE t[c]]

\* The end of the pass: the ledger is cleared.
clear_step(s) ==
  [s EXCEPT !.pending_sync = clear(@), !.containers = released(@),
            !.syncResult = "ok"]

\* The steps after the redraw; an error of the redraw has returned already.
finish_sync(s, focused) ==
  IF s.syncResult = "error" THEN s
  ELSE clear_step(effects_step(cursor_step(s, focused), focused))

\* The foreground given to the desktop before the lookup of the focused
\* container is found to have failed.
sync_with_focusing_first(s, focused, in) ==
  IF focused = NoId THEN failed(set_foreground(s, NoHandle, in.accepted))
  ELSE finish_sync(redraw_step(focus_step(s, focused, in.accepted), focused,
                               in.rect_err),
                   focused)

\* The pass once the focused container is looked up: without one it ends at
\* once with an error.
sync_with(s, focused, in) ==
  IF focused = NoId THEN failed(s)
  ELSE finish_sync(redraw_step(focus_step(s, focused, in.accepted), focused,
                               in.rect_err),
                   focused)

\* in: [accepted, rect_err]: whether the window system honours set_foreground,
\* and the handle of the window whose geometry lookup fails (NoHandle: none).
platform_sync(s, in) ==
  sync_with([forget_finished(s) EXCEPT !.syncResult = "running"],
            focused_container(s.containers), in)

-----------------------------------------------------------------------------
(* The body of an animation task, one poll at a time. *)

\* The four edges compared, not the origin and the size.
nearly_equal_edges(a, b) ==
  /\ Abs(a.left - b.left) < 2
  /\ Abs(a.top - b.top) < 2
  /\ Abs(a.right - b.right) < 2
  /\ Abs(a.bottom - b.bottom) < 2

nearly_equal(a, b) ==
  /\ Abs(a.left - b.left) < 2
  /\ Abs(a.top - b.top) < 2
  /\ Abs(Width(a) - Width(b)) < 2
  /\ Abs(Height(a) - Height(b)) < 2

interval_ms(fps) == 1000 \div fps

\* (duration_ms as f64 / interval_ms as f64) as u32
steps_of(duration_ms, fps) == duration_ms \div interval_ms(fps)

\* Cubic-out easing of one edge at step i of n, truncated as `as i32` does.
ease_edge(from, to, i, n) ==
  TruncDiv(from * (n * n * n) + (to - from) * ((n * n * n) - (n - i) * (n - i) * (n - i)),
           n * n * n)

cur_rect(a, b, i, n) ==
  Rect(ease_edge(a.left, b.left, i, n), ease_edge(a.top, b.top, i, n),
       ease_edge(a.right, b.right, i, n), ease_edge(a.bottom, b.bottom, i, n))

\* The write made with the hide method of the configuration of the moment.
write_rereading(s, k, tk, rc) ==
  [s EXCEPT !.os = os_set_position(@, tk.handle, rc, tk.z_order),
            !.lastPos[tk.handle] =
              PosCall(tk.window_state, rc, tk.z_order, tk.is_visible,
                      s.cfg.hide_method, tk.has_pending_dpi, k),
            !.tasks[k].writes = @ + 1]

\* One set_position of task k, with what the task captured when it was
\* spawned; its result is ignored by the task.
write_as(s, k, tk, rc) ==
  [s EXCEPT !.os = os_set_position(@, tk.handle, rc, tk.z_order),
            !.lastPos[tk.handle] =
              PosCall(tk.window_state, rc, tk.z_order, tk.is_visible,
                      tk.hide_method, tk.has_pending_dpi, k),
            !.tasks[k].writes = @ + 1]

task_write(s, k, rc) == write_as(s, k, s.tasks[k], rc)

finish(s, k, how) ==
  [s EXCEPT !.tasks[k].status = how, !.tasks[k].pc = "end",
            !.tasks[k].i = 0, !.tasks[k].steps = 0,
            !.tasks[k].start_rect = NoRect]

\* The task returns after its last interpolated write.
final_write_skipped(s, k) == finish(s, k, "done")

\* The final write of the target rect, after which the task returns.
final_write(s, k) == finish(task_write(s, k, s.tasks[k].end_rect), k, "done")

\* After the write of step i: the last step runs on into the final write.
after_step(s, k, i) ==
  IF i = s.tasks[k].steps THEN final_write(s, k)
  ELSE [s EXCEPT !.tasks[k].pc = "ticking", !.tasks[k].i = i + 1]

loop_step(s, k, i) ==
  after_step(
    task_write(s, k, cur_rect(s.tasks[k].start_rect, s.tasks[k].end_rect, i,
                              s.tasks[k].steps)),
    k, i)

\* The first poll: up to the first tick that is not ready at once.
start_from(s, k, tk, start) ==
  IF nearly_equal(start, tk.end_rect) THEN final_write(s, k)
  ELSE IF interval_ms(tk.fps) = 0 THEN finish(s, k, "panicked")
  ELSE IF steps_of(tk.duration_ms, tk.fps) = 0 THEN final_write(s, k)
  ELSE loop_step([s EXCEPT !.tasks[k].start_rect = start,
                           !.tasks[k].steps = steps_of(tk.duration_ms, tk.fps)],
                 k, 1)

\* frame_position of the task's window, else the target rect.
start_rect(s, tk) ==
  IF tk.handle \in s.os.alive THEN s.os.frame[tk.handle] ELSE tk.end_rect

first_poll(s, k) == start_from(s, k, s.tasks[k], start_rect(s, s.tasks[k]))

poll(s, k) ==
  IF s.tasks[k].pc = "spawned" THEN first_poll(s, k)
  ELSE loop_step(s, k, s.tasks[k].i)

-----------------------------------------------------------------------------
(* The state machine. *)

\* The animation settings tried: (duration_ms, fps).
AnimationSettings == {<<2, 1000>>, <<0, 60>>, <<150, 1001>>}

Config(enabled, setting) ==
  [initial_state |-> "Tiling",
   floating_centered |-> TRUE, floating_shown_on_top |-> FALSE,
   fullscreen_maximized |-> TRUE, fullscreen_shown_on_top |-> FALSE,
   animations_enabled |-> enabled,
   duration_ms |-> setting[1], fps |-> setting[2],
   hide_method |-> "Cloak", show_all_in_taskbar |-> FALSE,
   cursor_jump_enabled |-> FALSE, cursor_jump_trigger |-> "MonitorFocus",
   focus_follows_cursor |-> FALSE,
   focused_border |-> [enabled |-> FALSE, color |-> "blue"],
   other_border |-> [enabled |-> FALSE, color |-> "blue"]]

\* The border of the focused window coloured; the other windows keep a
\* border of their own colour, or the default one.
BorderConfigs ==
  {[Config(FALSE, <<2, 1000>>) EXCEPT !.focused_border.enabled = TRUE,
                                      !.other_border = [enabled |-> e,
                                                        color |-> "grey"]] :
     e \in BOOLEAN}

\* Focus-follows-cursor switched on, animations off.
DragConfigs == {[Config(FALSE, <<2, 1000>>) EXCEPT !.focus_follows_cursor = TRUE]}

\* The cursor jumps to the focused window.
JumpConfigs ==
  {[Config(FALSE, <<2, 1000>>) EXCEPT !.cursor_jump_enabled = TRUE,
                                      !.cursor_jump_trigger = "WindowFocus"]}

\* Floating and fullscreen windows shown on top of the others, or not.
TopConfigs ==
  {[Config(FALSE, <<2, 1000>>) EXCEPT !.floating_shown_on_top = f,
                                      !.fullscreen_shown_on_top = g] :
     f \in BOOLEAN, g \in BOOLEAN}

\* AnimationConfig::default: enabled, 150 ms at 144 fps.
DefaultConfigs == {Config(TRUE, <<150, 144>>)}

\* Fullscreen windows maximized or not.
FullConfigs ==
  {[Config(FALSE, <<2, 1000>>) EXCEPT !.fullscreen_maximized = m] :
     m \in BOOLEAN}

Configs ==
  {Config(e, a) : e \in BOOLEAN, a \in AnimationSettings}
    \cup DragConfigs \cup JumpConfigs \cup TopConfigs \cup FullConfigs
    \cup DefaultConfigs \cup BorderConfigs

State ==
  [containers |-> containers, pending_sync |-> pending_sync,
   animation_handles |-> animation_handles, tasks |-> tasks, cfg |-> cfg,
   os |-> os, lastPos |-> lastPos, lastTarget |-> lastTarget,
   passLog |-> passLog, syncResult |-> syncResult,
   manageResult |-> manageResult, drag_state |-> drag_state,
   is_focus_synced |-> is_focus_synced, has_initialized |-> has_initialized,
   is_paused |-> is_paused, prev_effects_window |-> prev_effects_window,
   border_tasks |-> border_tasks, lastBorder |-> lastBorder, input |-> input]

Become(s) ==
  /\ containers' = s.containers
  /\ pending_sync' = s.pending_sync
  /\ animation_handles' = s.animation_handles
  /\ tasks' = s.tasks
  /\ cfg' = s.cfg
  /\ os' = s.os
  /\ lastPos' = s.lastPos
  /\ lastTarget' = s.lastTarget
  /\ passLog' = s.passLog
  /\ syncResult' = s.syncResult
  /\ manageResult' = s.manageResult
  /\ drag_state' = s.drag_state
  /\ is_focus_synced' = s.is_focus_synced
  /\ has_initialized' = s.has_initialized
  /\ is_paused' = s.is_paused
  /\ prev_effects_window' = s.prev_effects_window
  /\ border_tasks' = s.border_tasks
  /\ lastBorder' = s.lastBorder
  /\ input' = s.input

\* DragState; drag_state = None is NoDrag.
NoDrag == [window_id |-> NoId, start_point |-> NoPoint]

Dragging(id, p) == [window_id |-> id, start_point |-> p]

-----------------------------------------------------------------------------
(* handle_mouse_move: the Alt-drag controller and focus-follows-cursor. *)

\* WindowFromPoint: the topmost window whose frame holds the point, else the
\* desktop.
window_from_point(o, p) ==
  FirstOr(SelectSeq(o.stack,
                    LAMBDA h : h \in o.alive /\ contains_point(o.frame[h], p)),
          NoHandle)

window_from_native(t, h) ==
  FirstOr(SelectSeq(windows(t), LAMBDA c : t[c].handle = h), NoId)

container_by_id(t, id) ==
  IF id \in Range(self_and_descendants(t, Root)) THEN id ELSE NoId

monitor_at_point(t, p) ==
  FirstOr(SelectSeq(monitors(t), LAMBDA m : contains_point(to_rect(t, m), p)),
          NoId)

RECURSIVE monitor(_, _)
monitor(t, c) ==
  IF c = NoId THEN NoId
  ELSE IF t[c].kind = "monitor" THEN c
  ELSE monitor(t, t[c].parent)

\* The window taken out of the tiling layout and put into its workspace,
\* keeping the focus if it had it.
moved_to_workspace(t, w, ws, was_focused) ==
  IF was_focused
  THEN set_focused_descendant(
         attach_container(detach_container(t, w), w, ws, child_count(t, ws) + 1), w)
  ELSE attach_container(detach_container(t, w), w, ws, child_count(t, ws) + 1)

\* update_window_state of a tiling window to a floating state: its screen
\* rect becomes its floating placement.
floated(s, w, state, rc, old_parent) ==
  [s EXCEPT
     !.containers =
        [moved_to_workspace(@, w, workspace(@, w), focused_container(@) = w)
           EXCEPT ![w].state = state, ![w].prev_state = Tiling,
                  ![w].floating_placement = rc],
     !.pending_sync =
        queue_container_to_redraw(queue_container_to_redraw(@, w), old_parent)]

update_window_state(s, w, state) ==
  IF s.containers[w].state.tag = state.tag THEN s
  ELSE IF s.containers[w].state = Tiling /\ state.tag = "Floating"
  THEN floated(s, w, state, to_rect(s.containers, w), s.containers[w].parent)
  ELSE [s EXCEPT !.containers[w].prev_state = s.containers[w].state,
                 !.containers[w].state = state,
                 !.pending_sync = queue_container_to_redraw(@, w)]

translate_to_coordinates(rc, x, y) == Rect(x, y, x + Width(rc), y + Height(rc))

\* set_window_position with WindowPositionTarget::Coordinates.
set_window_position(s, w, x, y) ==
  [s EXCEPT
     !.containers[w].floating_placement = translate_to_coordinates(@, x, y),
     !.pending_sync = IF s.containers[w].state.tag = "Floating"
                      THEN queue_container_to_redraw(@, w) ELSE @]

MouseMoveEvent(p, down, alt, found_ok) ==
  [point |-> p, is_mouse_down |-> down, alt_down |-> alt, found_ok |-> found_ok]

\* The managed window under the cursor, if the lookups find one.
window_under_cursor(s, ev) ==
  IF ev.found_ok
  THEN window_from_native(s.containers, window_from_point(s.os, ev.point))
  ELSE NoId

\* The window captured by the drag keeps its state.
float_skipped(s, w) == s

float_if_tiling(s, w) ==
  IF s.containers[w].state = Tiling
  THEN update_window_state(s, w, Floating(s.cfg.floating_shown_on_top))
  ELSE s

start_drag(s, ev, w) ==
  IF w = NoId THEN s
  ELSE float_if_tiling([s EXCEPT !.drag_state = Dragging(w, ev.point)], w)

\* The start of a drag: Alt held, button down, no drag in progress.
drag_init(s, ev) ==
  IF ev.alt_down /\ ev.is_mouse_down /\ s.drag_state = NoDrag
  THEN start_drag(s, ev, window_under_cursor(s, ev))
  ELSE s

focus_window(s, c) ==
  [s EXCEPT !.containers = set_focused_descendant(@, c),
            !.pending_sync = queue_focus_change(@)]

moved_by(s, w, rc, delta_x, delta_y) ==
  set_window_position(s, w, rc.left + delta_x, rc.top + delta_y)

\* The drag step that also gives the focus to the dragged window.
drag_move_focusing(s, ev, ds, w) ==
  [(IF w # NoId /\ is_window(s.containers, w)
    THEN focus_window(moved_by(s, w, to_rect(s.containers, w),
                               ev.point.x - ds.start_point.x,
                               ev.point.y - ds.start_point.y), w)
    ELSE s)
   EXCEPT !.drag_state.start_point = ev.point]

\* The window follows the cursor by the delta since the last event.
drag_move(s, ev, ds, w) ==
  [(IF w # NoId /\ is_window(s.containers, w)
    THEN moved_by(s, w, to_rect(s.containers, w),
                  ev.point.x - ds.start_point.x, ev.point.y - ds.start_point.y)
    ELSE s)
   EXCEPT !.drag_state.start_point = ev.point]

focus_under_cursor(s, ev, under, focused) ==
  IF focused = NoId THEN s
  ELSE IF under # NoId
  THEN (IF focused # under THEN focus_window(s, under) ELSE s)
  ELSE IF monitor_at_point(s.containers, ev.point) = NoId THEN s
  ELSE IF monitor_at_point(s.containers, ev.point) # monitor(s.containers, focused)
  THEN focus_window(s, monitor_at_point(s.containers, ev.point))
  ELSE s

\* Focus-follows-cursor, the handler's original logic.
follow_cursor(s, ev) ==
  IF ev.is_mouse_down \/ ~s.is_focus_synced \/ ~s.cfg.focus_follows_cursor
       \/ ~ev.found_ok
  THEN s
  ELSE focus_under_cursor(s, ev, window_under_cursor(s, ev),
                          focused_container(s.containers))

\* The handler that leaves the drag in progress when the button is up.
dragging_unreleased(s, ev) ==
  IF ~ev.is_mouse_down
  THEN follow_cursor(s, ev)
  ELSE drag_move(s, ev, s.drag_state,
                 container_by_id(s.containers, s.drag_state.window_id))

\* The handler once a drag is in progress; a drag step swallows the event.
dragging(s, ev) ==
  IF ~ev.is_mouse_down
  THEN follow_cursor([s EXCEPT !.drag_state = NoDrag], ev)
  ELSE drag_move(s, ev, s.drag_state,
                 container_by_id(s.containers, s.drag_state.window_id))

\* The drag going on only while Alt is held.
after_init_alt_held(s, ev) ==
  IF s.drag_state # NoDrag /\ ev.alt_down THEN dragging(s, ev)
  ELSE follow_cursor(s, ev)

after_init(s, ev) ==
  IF s.drag_state # NoDrag THEN dragging(s, ev) ELSE follow_cursor(s, ev)

handle_mouse_move(s, ev) == after_init(drag_init(s, ev), ev)

-----------------------------------------------------------------------------
(* unmanage_window. *)

same_kind(a, b) == a.tag = b.tag /\ a.tag \in {"Tiling", "Floating", "Fullscreen"}

\* The state of the removed window left out of the choice.
target_among_any_kind(t, order, state, ws) ==
  IF \E c \in Range(order) : is_window(t, c) /\ t[c].state # Minimized
  THEN FirstOr(SelectSeq(order, LAMBDA c : is_window(t, c)
                                             /\ t[c].state # Minimized),
               NoId)
  ELSE FirstOr(order, ws)

\* The target among the focus order left, for a removed window of the state
\* given: same kind of state, else not minimized, else any, else the
\* workspace.
target_among(t, order, state, ws) ==
  IF \E c \in Range(order) : is_window(t, c) /\ same_kind(t[c].state, state)
  THEN FirstOr(SelectSeq(order, LAMBDA c : is_window(t, c)
                                             /\ same_kind(t[c].state, state)),
               NoId)
  ELSE IF \E c \in Range(order) : is_window(t, c) /\ t[c].state # Minimized
  THEN FirstOr(SelectSeq(order, LAMBDA c : is_window(t, c)
                                             /\ t[c].state # Minimized),
               NoId)
  ELSE FirstOr(order, ws)

focus_target_after_removal(t, removed_window) ==
  IF focused_container(t) # removed_window THEN NoId
  ELSE target_among(t,
                    Without(descendant_focus_order(t, workspace(t, removed_window)),
                            removed_window),
                    t[removed_window].state, workspace(t, removed_window))

\* The focus moved to the target, if there is one.
refocused(s, focus_target) ==
  IF focus_target = NoId THEN s
  ELSE [s EXCEPT
          !.containers = set_focused_descendant(@, focus_target),
          !.pending_sync =
             queue_workspace_to_reorder(queue_focus_change(@),
                                        workspace(s.containers, focus_target))]

\* The window taken out of the tree, and its container dropped unless the
\* ledger still holds it; what is left of its parent, else its workspace, is
\* queued for redraw.
detached(s, w, parent, ws) ==
  [s EXCEPT
     !.containers = IF w \in s.pending_sync.redraw
                    THEN detach_container(@, w)
                    ELSE [detach_container(@, w) EXCEPT ![w] = Blank],
     !.prev_effects_window = IF @.id = w THEN [@ EXCEPT !.id = NoId] ELSE @,
     !.pending_sync =
        queue_container_to_redraw(
          @, IF detach_container(s.containers, w)[parent].kind = "none"
             THEN ws ELSE parent)]

\* The animation task of the window is cancelled, then the window detached.
unmanage_window(s, w) ==
  refocused(detached(abort_previous(s, s.containers[w].handle), w,
                     s.containers[w].parent, workspace(s.containers, w)),
            focus_target_after_removal(s.containers, w))

-----------------------------------------------------------------------------
(* Commands and events outside the reconciliation core that bring about the
   window states the pass has to deal with. *)

\* The workspace activated on the monitor, if it is not there yet.
activate_workspace(t, ws) ==
  IF t[ws].kind # "none" THEN t
  ELSE attach_container([t EXCEPT ![ws] = NewNode("workspace")], ws, MonitorId,
                        child_count(t, MonitorId))

\* The focus moved to workspace ws: it becomes the displayed workspace of
\* its monitor; both workspaces are redrawn and the cursor follows.
focus_workspace(s, ws) ==
  [s EXCEPT
     !.containers = set_focused_descendant(activate_workspace(@, ws), ws),
     !.pending_sync =
        queue_cursor_jump(
          queue_focus_change(
            queue_container_to_redraw(
              queue_container_to_redraw(
                @, displayed_workspace(s.containers, MonitorId)),
              ws)))]

\* The window system reports a window shown or hidden: the transition of
\* its display state is complete.
display_completed(s, w) ==
  [s EXCEPT !.containers[w].display_state =
              IF @ = "Showing" THEN "Shown"
              ELSE IF @ = "Hiding" THEN "Hidden" ELSE @]

\* A floating window made fullscreen, a fullscreen window given back the
\* state it had before.
toggle_fullscreen(s, w) ==
  IF s.containers[w].state.tag = "Fullscreen"
  THEN update_window_state(s, w, s.containers[w].prev_state)
  ELSE update_window_state(s, w, Fullscreen(FALSE, s.cfg.fullscreen_shown_on_top))

\* WmState::new.
new ==
  [containers |-> [i \in Ids |-> IF i = Root THEN NewNode("root") ELSE Blank],
   pending_sync |-> EmptyLedger,
   animation_handles |-> [h \in Handles |-> NoTask],
   tasks |-> <<>>,
   lastPos |-> [h \in Handles |-> NoCall],
   lastTarget |-> [h \in Handles |-> NoTarget],
   passLog |-> <<>>,
   syncResult |-> "none",
   manageResult |-> "none",
   drag_state |-> NoDrag,
   is_focus_synced |-> FALSE,
   has_initialized |-> FALSE,
   is_paused |-> FALSE,
   prev_effects_window |-> NoWindow,
   border_tasks |-> <<>>,
   lastBorder |-> [h \in Handles |-> "unset"],
   input |-> NoInput]

Init ==
  /\ containers = new.containers
  /\ pending_sync = new.pending_sync
  /\ animation_handles = new.animation_handles
  /\ tasks = new.tasks
  /\ lastPos = new.lastPos
  /\ lastTarget = new.lastTarget
  /\ passLog = new.passLog
  /\ syncResult = new.syncResult
  /\ manageResult = new.manageResult
  /\ drag_state = new.drag_state
  /\ is_focus_synced = new.is_focus_synced
  /\ has_initialized = new.has_initialized
  /\ is_paused = new.is_paused
  /\ prev_effects_window = new.prev_effects_window
  /\ border_tasks = new.border_tasks
  /\ lastBorder = new.lastBorder
  /\ input = new.input
  /\ cfg \in Configs
  /\ os = [frame |-> [h \in Handles |-> NativeFrame(h)], alive |-> Handles,
           stack |-> [i \in 1..MaxWindows |-> i], topmost |-> {},
           foreground |-> NoHandle, refused |-> {},
           border |-> [h \in Handles |-> "default"]]

managed(t, h) ==
  \E c \in Ids : is_window(t, c) /\ ~is_detached(t, c) /\ t[c].handle = h

\* add_monitor: the monitor and its first workspace.
add_monitor(t) ==
  attach_container(
    attach_container([t EXCEPT ![MonitorId] = NewNode("monitor"),
                               ![WorkspaceId] = NewNode("workspace")],
                     MonitorId, Root, 0),
    WorkspaceId, MonitorId, 0)

ManageIn(h, native, parent, mouse_pos, fail, dpi) ==
  [handle |-> h, native |-> native, target_parent |-> parent,
   mouse_pos |-> mouse_pos, fail |-> fail, dpi |-> dpi, rules |-> "keep"]

SyncIn(accepted, rect_err) == [accepted |-> accepted, rect_err |-> rect_err]

\* The loop of populate over the manageable windows.
RECURSIVE manage_all(_, _, _)
manage_all(s, hs, native) ==
  IF hs = <<>> THEN s
  ELSE manage_all(
         manage_window(s, ManageIn(Head(hs), native[Head(hs)],
                                   displayed_workspace(s.containers, MonitorId),
                                   NoPoint, "none", FALSE)),
         Tail(hs), native)

\* The foreground window's container, else the last window, else the workspace.
container_to_focus(t, foreground) ==
  IF \E c \in Range(windows(t)) : t[c].handle = foreground
  THEN CHOOSE c \in Range(windows(t)) : t[c].handle = foreground
  ELSE IF windows(t) # <<>> THEN windows(t)[Len(windows(t))]
  ELSE WorkspaceId

focus_and_queue(s, foreground) ==
  [s EXCEPT
     !.containers = set_focused_descendant(@, container_to_focus(@, foreground)),
     !.is_focus_synced = TRUE,
     !.pending_sync = queue_workspace_to_reorder(
        queue_all_effects_update(queue_focus_change(@)), WorkspaceId)]

\* WmState::populate with one monitor and the manageable windows found.
initialized(s) ==
  IF s.syncResult = "error" THEN s ELSE [s EXCEPT !.has_initialized = TRUE]

populate(s, found, native, sync_in) ==
  initialized(
    platform_sync(
      focus_and_queue(
        manage_all([s EXCEPT !.containers = add_monitor(@)], Reverse(found), native),
        s.os.foreground),
      sync_in))

\* The windows found at start-up: at most MaxPopulate of them.
MaxPopulate == 1

Populate(handles, kinds) ==
  /\ monitors(containers) = <<>>
  /\ \E S \in SUBSET handles :
       \E native \in [S -> kinds] :
         /\ Cardinality(S) <= MaxPopulate
         /\ Become(populate(fresh(State), SelectSeq(os.stack, LAMBDA h : h \in S),
                            native, SyncIn(TRUE, NoHandle)))

ManageWindow(handles, kinds, points, fails) ==
  /\ Cardinality(FreeIds(containers)) >= 2
  /\ \E h \in handles, native \in kinds, mouse_pos \in points, fail \in fails :
       /\ ~managed(containers, h)
       /\ Become(manage_window(fresh(State),
                               ManageIn(h, native, NoId, mouse_pos, fail, FALSE)))

ManageInput(h, mouse_pos) ==
  [op |-> "manage_window", handle |-> h, mouse_pos |-> mouse_pos]

recorded(s, in) == [s EXCEPT !.input = in]

\* manage_window for a resizable window, the cursor position it reads kept
\* in input.
ManageAtCursor(handles, points) ==
  /\ Cardinality(FreeIds(containers)) >= 2
  /\ \E h \in handles, mouse_pos \in points :
       /\ ~managed(containers, h)
       /\ Become(recorded(manage_window(fresh(State),
                                        ManageIn(h, "normal", NoId, mouse_pos,
                                                 "none", FALSE)),
                          ManageInput(h, mouse_pos)))

\* manage_window for a window of any kind, the cursor position it reads kept
\* in input.
ManageKindAtCursor(handles, kinds, points) ==
  /\ Cardinality(FreeIds(containers)) >= 2
  /\ \E h \in handles, native \in kinds, mouse_pos \in points :
       /\ ~managed(containers, h)
       /\ Become(recorded(manage_window(fresh(State),
                                        ManageIn(h, native, NoId, mouse_pos,
                                                 "none", FALSE)),
                          ManageInput(h, mouse_pos)))

\* manage_window for a window that a window rule drops again.
ManageDropped(handles, kinds, points) ==
  /\ Cardinality(FreeIds(containers)) >= 2
  /\ \E h \in handles, native \in kinds, mouse_pos \in points :
       /\ ~managed(containers, h)
       /\ Become(manage_window(
                   fresh(State),
                   [ManageIn(h, native, NoId, mouse_pos, "none", FALSE)
                      EXCEPT !.rules = "drop"]))

\* manage_window called for a window that is managed already.
ManageAgain(handles, kinds) ==
  /\ Cardinality(FreeIds(containers)) >= 2
  /\ \E h \in handles, native \in kinds :
       /\ managed(containers, h)
       /\ Become(manage_window(fresh(State),
                               ManageIn(h, native, NoId, NoPoint, "none", FALSE)))

MouseInput(ev, dragged) ==
  [op |-> "mouse_move", point |-> ev.point, is_mouse_down |-> ev.is_mouse_down,
   alt_down |-> ev.alt_down, found_ok |-> ev.found_ok, dragged |-> dragged]

\* One mouse-move event; dragged: the window of the drag in progress.
MouseMove(points, oks) ==
  \E p \in points, down \in BOOLEAN, alt \in BOOLEAN, found_ok \in oks :
    Become(recorded(handle_mouse_move(fresh(State),
                                      MouseMoveEvent(p, down, alt, found_ok)),
                    MouseInput(MouseMoveEvent(p, down, alt, found_ok),
                               drag_state.window_id)))

PlatformSync(accepts, errs) ==
  \E accepted \in accepts, rect_err \in errs :
    Become(platform_sync(fresh(State), SyncIn(accepted, rect_err)))

AnimStep ==
  \E k \in DOMAIN tasks :
    /\ tasks[k].status = "running"
    /\ Become(poll(fresh(State), k))

UnmanageWindow(handles) ==
  \E h \in handles :
    /\ managed(containers, h)
    /\ Become(unmanage_window(fresh(State), window_from_native(containers, h)))

\* The window handed to unmanage_window, as it was before the call.
UnmanageInput(t, w) ==
  [op |-> "unmanage_window", handle |-> t[w].handle, state |-> t[w].state,
   had_focus |-> focused_container(t) = w]

\* unmanage_window with the window it was given kept in input.
UnmanageRecorded(handles) ==
  \E h \in handles :
    /\ managed(containers, h)
    /\ Become(recorded(unmanage_window(fresh(State),
                                       window_from_native(containers, h)),
                       UnmanageInput(containers,
                                     window_from_native(containers, h))))

FocusWorkspace ==
  \E ws \in {WorkspaceId, OtherWorkspaceId} :
    /\ monitors(containers) # <<>>
    /\ displayed_workspace(containers, MonitorId) # ws
    /\ Become(focus_workspace(fresh(State), ws))

DisplayCompleted ==
  \E w \in Ids :
    /\ is_window(containers, w)
    /\ containers[w].display_state \in {"Showing", "Hiding"}
    /\ Become(display_completed(fresh(State), w))

ToggleFullscreen ==
  \E w \in Ids :
    /\ is_window(containers, w)
    /\ \/ containers[w].state.tag = "Floating"
       \/ /\ containers[w].state.tag = "Fullscreen"
          /\ containers[w].prev_state.tag = "Floating"
    /\ Become(toggle_fullscreen(fresh(State), w))

\* The window of a handle is destroyed: calls on the handle fail from now on.
DestroyWindow(handles) ==
  \E h \in handles \cap os.alive :
    Become([fresh(State) EXCEPT !.os.alive = @ \ {h}])

\* A window that is not managed is moved or resized by its owner.
NativeMove(handles, frames) ==
  \E h \in handles, rc \in frames :
    /\ ~managed(containers, h)
    /\ os.frame[h] # rc
    /\ Become([fresh(State) EXCEPT !.os.frame[h] = rc])

ReloadConfig(configs) ==
  /\ cfg' \in configs \ {cfg}
  /\ Become([fresh(State) EXCEPT !.cfg = cfg'])

-----------------------------------------------------------------------------
(* Spec: the commands that build the tree. *)

StillConfigs == {Config(FALSE, <<2, 1000>>)}

InitStill == Init /\ cfg \in StillConfigs

ManageKinds == {"normal", "fixed_size"}

Next ==
  \/ Populate(Handles, ManageKinds)
  \/ ManageWindow(Handles, ManageKinds, CursorPoints, FailPoints)

Spec == InitStill /\ [][Next]_vars

(* SpecSync: the reconciliation pass over windows of every state, without
   animations. *)

NextSync ==
  \/ Populate(Handles, NativeKinds)
  \/ ManageWindow(Handles, NativeKinds, {NoPoint}, {"none"})
  \/ PlatformSync(BOOLEAN, {NoHandle})

SpecSync == InitStill /\ [][NextSync]_vars

(* SpecErr: passes that a failing lookup may end early. *)

NextErr ==
  \/ Populate(Handles, ManageKinds)
  \/ ManageWindow(Handles, ManageKinds, {NoPoint}, {"none"})
  \/ PlatformSync({TRUE}, Handles \cup {NoHandle})

SpecErr == InitStill /\ [][NextErr]_vars

(* SpecAnim: reconciliation with animation tasks running between the passes
   and the configuration reloaded; one native window is left unmanaged. *)

AnimHandles == 1..(MaxWindows - 1)

ReloadConfigs == {Config(e, <<2, 1000>>) : e \in BOOLEAN}

NextAnim ==
  \/ Populate(AnimHandles, ManageKinds)
  \/ ManageWindow(AnimHandles, ManageKinds, {NoPoint}, {"none"})
  \/ PlatformSync({TRUE}, {NoHandle})
  \/ AnimStep
  \/ ReloadConfig(ReloadConfigs)

InitAnim == Init /\ cfg \in {Config(TRUE, a) : a \in AnimationSettings}

SpecAnim == InitAnim /\ [][NextAnim]_vars

-----------------------------------------------------------------------------
(* Properties of manage_window, under Spec. *)

\* C9: a manage_window that fails part-way, its window gone while the command
\* runs, is a no-op: the container tree (child lists, splits, tiling
\* directions, focus order) and the ledger are as they were before the call.
C9_FailedManageIsNoOp ==
  [][manageResult' = "warned" =>
       (containers' = containers /\ pending_sync' = pending_sync)]_vars

\* C10: after any manage_window, failed or not, every split container of the
\* tree has at least two children.
C10_SplitsHaveTwoChildren ==
  \A c \in Ids :
    containers[c].kind = "split" => child_count(containers, c) >= 2

-----------------------------------------------------------------------------
(* Properties of the reconciliation pass, under SpecSync. passLog holds the
   platform calls of the pass just run, in the order they were issued. *)

carries_z_order(call) == call.op \in {"set_z_order", "set_position", "spawn"}

is_anchored(call) == carries_z_order(call) /\ call.z_order.kind = "AfterWindow"

z_orders(call, h) == carries_z_order(call) /\ call.handle = h

focus_handles(t) ==
  [k \in 1..Len(descendant_focus_order(t, WorkspaceId)) |->
     t[descendant_focus_order(t, WorkspaceId)[k]].handle]

all_floating(t) ==
  /\ descendant_focus_order(t, WorkspaceId) # <<>>
  /\ \A w \in Range(descendant_focus_order(t, WorkspaceId)) :
       is_window(t, w) /\ t[w].state = Floating(FALSE)

\* Every window of the focus order fo got one z-order target in the pass:
\* Normal for the first, AfterWindow(anchor(k)) for the k-th.
z_targets(log, fo, anchor(_)) ==
  \A k \in DOMAIN fo :
    /\ \E i \in DOMAIN log : z_orders(log[i], fo[k])
    /\ \A i \in DOMAIN log :
         z_orders(log[i], fo[k]) =>
           log[i].z_order = IF k = 1 THEN ZNormal ELSE ZAfterWindow(anchor(k))

anchored_to_previous == 
  z_targets(passLog, focus_handles(containers),
            LAMBDA k : focus_handles(containers)[k - 1])

anchored_to_focused ==
  z_targets(passLog, focus_handles(containers),
            LAMBDA k : focus_handles(containers)[1])

\* C6, as claimed: a pass with a reorder queued for a workspace of floating
\* windows with focus order [w1, ..., wn] gives w1 Normal and every later wi
\* AfterWindow(handle of w(i-1)).
C6_ReorderAnchorsToPrevious ==
  [][(/\ WorkspaceId \in pending_sync.reorder
      /\ all_floating(containers)
      /\ syncResult' = "ok") => anchored_to_previous']_vars

\* C6, amended: such a pass gives w1 Normal and every later wi
\* AfterWindow(handle of w1), the focused descendant of the workspace.
C6_ReorderAnchorsToFocused ==
  [][(/\ WorkspaceId \in pending_sync.reorder
      /\ all_floating(containers)
      /\ syncResult' = "ok") => anchored_to_focused']_vars

C6_ThreeFloatingReordered ==
  /\ syncResult = "ok"
  /\ all_floating(containers)
  /\ Len(focus_handles(containers)) = 3
  /\ \E i \in DOMAIN passLog :
       /\ passLog[i].op = "set_z_order"
       /\ passLog[i].handle = focus_handles(containers)[3]
       /\ passLog[i].z_order = ZAfterWindow(focus_handles(containers)[1])

\* C7: after a completed pass that z-orders the floating windows of a
\* workspace, their stacking order in the window system, top to bottom, is
\* the focus order of the workspace.
C7_StackingIsFocusOrder ==
  (/\ syncResult = "ok"
   /\ all_floating(containers)
   /\ \A h \in Range(focus_handles(containers)) :
        \E i \in DOMAIN passLog : z_orders(passLog[i], h))
  => SelectSeq(os.stack, LAMBDA h : h \in Range(focus_handles(containers)))
       = focus_handles(containers)

C7_RestackedBelowFocused ==
  /\ syncResult = "ok"
  /\ all_floating(containers)
  /\ focus_handles(containers) = <<2, 3, 1>>
  /\ os.stack = <<2, 3, 1>>
  /\ Cardinality({i \in DOMAIN passLog : passLog[i].op = "set_z_order"}) = 2

\* C8, as claimed: after every call of platform_sync, whatever its outcome,
\* the ledger is empty.
C8_LedgerEmptyAfterEveryPass ==
  syncResult # "none" => pending_sync = EmptyLedger

\* C8, amended: a pass that returns Ok leaves the ledger empty; a pass that
\* returns an error leaves the ledger as it found it.
C8_LedgerClearedByCompletedPass ==
  [][/\ syncResult' = "ok" => pending_sync' = EmptyLedger
     /\ syncResult' = "error" => pending_sync' = pending_sync]_vars

C8_FailedPassKeepsLedger ==
  /\ syncResult = "error"
  /\ pending_sync.redraw # {}
  /\ pending_sync.focus_update

-----------------------------------------------------------------------------
(* Properties of the animation tasks, under SpecAnim. lastTarget[h] is the
   rect and visibility the latest pass that redrew h computed; lastPos[h] is
   the latest set_position issued for h, by a pass or by task `by`. *)

running(ts, h) == {k \in DOMAIN ts : ts[k].handle = h /\ ts[k].status = "running"}

\* C1: once every launched task has finished or been cancelled, the last
\* set_position of a redrawn window carries the rect and the visibility
\* that the latest pass computed for it, whichever paths the passes took.
C1_LaterTargetWins ==
  (\A k \in DOMAIN tasks : tasks[k].status \in {"done", "cancelled"}) =>
    \A h \in Handles :
      lastTarget[h].set =>
        /\ lastPos[h].rect = lastTarget[h].rect
        /\ lastPos[h].is_visible = lastTarget[h].is_visible

\* C2: a handle has at most one animation task that is not cancelled and
\* still runs, and when a pass registers a new task under a handle the task
\* registered before is aborted by then.
C2_OneLiveTaskPerHandle ==
  /\ [](\A h \in Handles : Cardinality(running(tasks, h)) <= 1)
  /\ [][\A h \in Handles :
          (/\ animation_handles[h] # NoTask
           /\ animation_handles'[h] # animation_handles[h])
          => /\ animation_handles[h] \in DOMAIN tasks'
             /\ tasks'[animation_handles[h]].status # "running"
             /\ tasks'[animation_handles'[h]].status = "running"]_vars

C2_RelaunchedWhileInFlight ==
  \E h \in Handles, k \in DOMAIN tasks :
    /\ tasks[k].handle = h
    /\ tasks[k].status = "cancelled"
    /\ tasks[k].writes = 1
    /\ animation_handles[h] \in running(tasks, h)

\* The setting that stands for the one of S5: whole milliseconds between
\* the frames, more than one step.
S5Setting(task) == task.duration_ms = 2 /\ task.fps = 1000

\* C3: a cancelled task issues no set_position any more, its record only
\* ever giving way to a task spawned anew; and a task launched with the
\* setting of S5 that is polled either goes on or ends with the set_position
\* of its own target rect.
C3_CancelledTaskIsSilent ==
  [][\A k \in DOMAIN tasks :
       /\ tasks[k].status = "cancelled" =>
            \/ k \notin DOMAIN tasks'
            \/ tasks'[k] = tasks[k]
            \/ tasks'[k].pc = "spawned" /\ tasks'[k].writes = 0
       /\ (/\ tasks[k].status = "running"
           /\ S5Setting(tasks[k])
           /\ k \in DOMAIN tasks'
           /\ tasks'[k].status \notin {"running", "cancelled"})
          => /\ tasks'[k].status = "done"
             /\ lastPos'[tasks[k].handle].by = k
             /\ lastPos'[tasks[k].handle].rect = tasks[k].end_rect]_vars

C3_SecondAnimationCompleted ==
  \E h \in Handles, k \in DOMAIN tasks :
    /\ tasks[k].handle = h
    /\ tasks[k].status = "cancelled"
    /\ tasks[k].writes = 1
    /\ animation_handles[h] \in DOMAIN tasks
    /\ tasks[animation_handles[h]].status = "done"
    /\ tasks[animation_handles[h]].writes = 3
    /\ tasks[animation_handles[h]].end_rect # tasks[k].end_rect
    /\ lastPos[h].by = animation_handles[h]
    /\ lastPos[h].rect = tasks[animation_handles[h]].end_rect

\* C4: a task that is not cancelled ends, whatever the duration and the
\* frame rate, with a set_position of the final rect that the pass computed.
C4_UncancelledTaskEndsOnTarget ==
  [][\A k \in DOMAIN tasks :
       (/\ tasks[k].status = "running"
        /\ k \in DOMAIN tasks'
        /\ tasks'[k].status \notin {"running", "cancelled"})
       => /\ tasks'[k].status = "done"
          /\ lastPos'[tasks[k].handle].by = k
          /\ lastPos'[tasks[k].handle].rect = tasks[k].end_rect]_vars

-----------------------------------------------------------------------------
(* SpecAgain: manage_window called again for windows that are managed. *)

NextAgain ==
  \/ Populate(Handles, ManageKinds)
  \/ ManageWindow(Handles, ManageKinds, {NoPoint}, {"none"})
  \/ ManageAgain(Handles, ManageKinds)

SpecAgain == InitStill /\ [][NextAgain]_vars

\* C11: after any sequence of populate and manage_window calls, manage_window
\* of an already managed handle included, no native handle is held by two
\* window containers of the tree.
C11_NoHandleHeldTwice ==
  \A c, d \in Ids :
    (/\ is_window(containers, c) /\ is_window(containers, d)
     /\ containers[c].handle = containers[d].handle) => c = d

-----------------------------------------------------------------------------
(* SpecPlan: the insertion planner, with the cursor position read by each
   manage_window kept in input. *)

PlanPoints == CursorPoints \cup {Pt(9, 9), Pt(4, 8), Pt(3, 6)}

NextPlan ==
  \/ Populate(Handles, {"normal"})
  \/ ManageAtCursor(Handles, PlanPoints)

SpecPlan == InitStill /\ [][NextPlan]_vars

window_of(t, h) == CHOOSE c \in Ids : is_window(t, c) /\ t[c].handle = h

\* The step is a manage_window that succeeds with the cursor inside the
\* focused tiling window.
PlannedAtCursor ==
  /\ input'.op = "manage_window"
  /\ manageResult' = "managed"
  /\ in_focused_rect(Tiling, containers, focused_container(containers),
                     input'.mouse_pos)

focused_rect == to_rect(containers, focused_container(containers))

delta_x == input'.mouse_pos.x - center_point(focused_rect).x
delta_y == input'.mouse_pos.y - center_point(focused_rect).y

\* The container the window just managed was attached to.
new_parent == containers'[window_of(containers', input'.handle)].parent

new_index == index(containers', window_of(containers', input'.handle))

\* C12: with the cursor inside the focused tiling window and the normalized
\* offsets tied (|dx| * height = |dy| * width), the planner's desired
\* direction, the direction of the container the new window lands in, is
\* Horizontal.
C12_TiePrefersHorizontal ==
  [][(/\ PlannedAtCursor
      /\ Abs(delta_x) * Height(focused_rect) = Abs(delta_y) * Width(focused_rect))
       => containers'[new_parent].dir = "Horizontal"]_vars

\* C13: with the cursor exactly on the centre of the focused tiling window
\* (dx = dy = 0) the new window is inserted after the focused window: in the
\* container it lands in, it is the sibling that follows the focused window
\* (focused index + 1 in the same parent, index 1 in a redirected or new
\* split).
C13_CentreInsertsAfter ==
  [][(PlannedAtCursor /\ delta_x = 0 /\ delta_y = 0)
       => /\ containers'[focused_container(containers)].parent = new_parent
          /\ new_index = index(containers', focused_container(containers)) + 1]_vars

\* What the planner decides for the step, as manage_window computes it.
planned_dir == desired_dir(focused_rect, input'.mouse_pos)
planned_after == insert_after(focused_rect, input'.mouse_pos)

focused_parent == containers[focused_container(containers)].parent

splits(t) == {c \in Ids : t[c].kind = "split"}

\* C14 (S1): with the cursor inside the focused tiling window and the desired
\* direction equal to the direction of its parent, the new window is attached
\* to that parent at focused index + 1 if insert-after, else at the focused
\* index; the direction of the parent is unchanged and no split is created.
C14_SameDirectionInsertsBeside ==
  [][(PlannedAtCursor /\ planned_dir = containers[focused_parent].dir)
       => /\ new_parent = focused_parent
          /\ new_index = index(containers, focused_container(containers))
                           + (IF planned_after THEN 1 ELSE 0)
          /\ containers'[focused_parent].dir = containers[focused_parent].dir
          /\ splits(containers') = splits(containers)]_vars

\* S1: A alone in a Horizontal workspace, cursor in its right half, B managed.
C14_InsertedRightOfFocused ==
  /\ input = ManageInput(2, Pt(10, 6))
  /\ manageResult = "managed"
  /\ containers[WorkspaceId].dir = "Horizontal"
  /\ Len(containers[WorkspaceId].children) = 2
  /\ containers[containers[WorkspaceId].children[1]].handle = 1
  /\ containers[containers[WorkspaceId].children[2]].handle = 2

\* C15 (S2): with the desired direction different from the direction of the
\* parent and the focused window the only child of the parent, the parent's
\* direction is switched to the desired one, the new window is attached to
\* that parent at index 1 if insert-after, else 0, and no split is created.
C15_SingleChildSwitchesDirection ==
  [][(/\ PlannedAtCursor
      /\ planned_dir # containers[focused_parent].dir
      /\ child_count(containers, focused_parent) = 1)
       => /\ containers'[focused_parent].dir = planned_dir
          /\ new_parent = focused_parent
          /\ new_index = (IF planned_after THEN 1 ELSE 0)
          /\ splits(containers') = splits(containers)]_vars

\* S2: A alone in a Horizontal workspace, cursor at its bottom, B managed.
C15_SwitchedToVertical ==
  /\ input = ManageInput(2, Pt(6, 10))
  /\ manageResult = "managed"
  /\ containers[WorkspaceId].dir = "Vertical"
  /\ Len(containers[WorkspaceId].children) = 2
  /\ containers[containers[WorkspaceId].children[1]].handle = 1
  /\ containers[containers[WorkspaceId].children[2]].handle = 2
  /\ splits(containers) = {}

\* C16 (S3): with the desired direction different from the direction of the
\* parent and the parent holding more than one child, a new split S of the
\* desired direction takes the place of the focused window in the parent;
\* after the manage S holds exactly the focused window and the new window,
\* the new one at index 1 if insert-after, else 0; the direction of the parent
\* and its other children are unchanged.
C16_MultiChildWrapsInSplit ==
  [][(/\ PlannedAtCursor
      /\ planned_dir # containers[focused_parent].dir
      /\ child_count(containers, focused_parent) > 1)
       => /\ new_parent \in splits(containers') \ splits(containers)
          /\ containers'[new_parent].dir = planned_dir
          /\ containers'[focused_parent].children =
               ReplaceIn(containers[focused_parent].children,
                         focused_container(containers), new_parent)
          /\ containers'[focused_parent].dir = containers[focused_parent].dir
          /\ containers'[new_parent].parent = focused_parent
          /\ containers'[new_parent].children =
               (IF planned_after
                THEN <<focused_container(containers),
                       window_of(containers', input'.handle)>>
                ELSE <<window_of(containers', input'.handle),
                       focused_container(containers)>>)]_vars

\* S3 with two children: the workspace [A, B] becomes [A, S], S = [B, C].
C16_FocusedWrappedWithNew ==
  /\ input = ManageInput(3, Pt(9, 9))
  /\ manageResult = "managed"
  /\ containers[WorkspaceId].dir = "Horizontal"
  /\ Len(containers[WorkspaceId].children) = 2
  /\ containers[containers[WorkspaceId].children[1]].handle = 1
  /\ containers[containers[WorkspaceId].children[2]].kind = "split"
  /\ containers[containers[WorkspaceId].children[2]].dir = "Vertical"
  /\ Len(containers[containers[WorkspaceId].children[2]].children) = 2
  /\ containers[containers[containers[WorkspaceId].children[2]].children[1]].handle = 2
  /\ containers[containers[containers[WorkspaceId].children[2]].children[2]].handle = 3

-----------------------------------------------------------------------------
(* SpecDrag: mouse-move events over managed windows, with focus-follows-cursor
   enabled. *)

DragKinds == {"normal", "fullscreen"}

DragPoints == {Pt(2, 5), Pt(10, 6)}

InitDrag == Init /\ cfg \in DragConfigs

DragHandles == 1..(MaxWindows - 1)

\* The dispatcher runs the pass a handler has queued before it takes the next
\* event.
Reconciled == pending_sync = EmptyLedger

NextDrag ==
  \/ Populate(DragHandles, DragKinds)
  \/ Reconciled /\ ManageWindow(DragHandles, DragKinds, {NoPoint}, {"none"})
  \/ ~Reconciled /\ PlatformSync({TRUE}, {NoHandle})
  \/ Reconciled /\ MouseMove(DragPoints, {TRUE})

SpecDrag == InitDrag /\ [][NextDrag]_vars

\* The step handles a mouse-move event.
MouseMoved == input'.op = "mouse_move"

\* The managed window the lookups of the event find under the cursor.
under_cursor ==
  window_under_cursor([containers |-> containers, os |-> os], input')

\* C17: on a mouse-move with Alt held, the left button down and no drag in
\* progress, a managed window under the cursor becomes the dragged window with
\* last point = event point; if it was Tiling it becomes Floating, in any
\* other state it keeps its state; with no managed window under the cursor
\* the drag state stays None.
C17_DragStartCaptures ==
  [][(/\ MouseMoved /\ input'.alt_down /\ input'.is_mouse_down
      /\ drag_state = NoDrag)
       => IF under_cursor # NoId
          THEN /\ drag_state' = Dragging(under_cursor, input'.point)
               /\ containers[under_cursor].state = Tiling
                    => containers'[under_cursor].state.tag = "Floating"
               /\ containers[under_cursor].state # Tiling
                    => containers'[under_cursor].state = containers[under_cursor].state
          ELSE drag_state' = NoDrag]_vars

\* A drag that began with this event on a window that was tiling.
C17_TilingWindowCaptured ==
  /\ input.op = "mouse_move"
  /\ input.dragged = NoId
  /\ drag_state # NoDrag
  /\ drag_state.start_point = input.point
  /\ containers[drag_state.window_id].state.tag = "Floating"
  /\ containers[drag_state.window_id].prev_state = Tiling

\* The dragged window, while it is in the tree.
dragged_window == container_by_id(containers, drag_state.window_id)

\* C18: during a drag each mouse-move with the left button held moves the
\* dragged window by exactly event.point - last_point and then sets
\* last_point to event.point (so that the window's position is its position
\* at drag start plus the cursor's displacement since then).
C18_DragMovesByDelta ==
  [][(/\ MouseMoved /\ input'.is_mouse_down
      /\ drag_state # NoDrag /\ dragged_window # NoId)
       => /\ to_rect(containers', dragged_window).left =
               to_rect(containers, dragged_window).left
                 + (input'.point.x - drag_state.start_point.x)
          /\ to_rect(containers', dragged_window).top =
               to_rect(containers, dragged_window).top
                 + (input'.point.y - drag_state.start_point.y)
          /\ drag_state' = Dragging(dragged_window, input'.point)]_vars

\* C19: while the drag state is Dragging and the left button is held, a
\* mouse-move is consumed: the focused container is unchanged and the event
\* queues no focus change.
C19_DragStepKeepsFocus ==
  [][(MouseMoved /\ input'.is_mouse_down /\ drag_state # NoDrag)
       => /\ focused_container(containers') = focused_container(containers)
          /\ pending_sync'.focus_update = pending_sync.focus_update]_vars

\* A drag step ended with the cursor over a managed window other than the
\* focused one, focus-follows-cursor being enabled.
C19_DraggedOverOtherWindow ==
  /\ input.op = "mouse_move"
  /\ input.is_mouse_down
  /\ input.dragged # NoId
  /\ cfg.focus_follows_cursor /\ is_focus_synced
  /\ window_under_cursor([containers |-> containers, os |-> os], input)
       \notin {NoId, focused_container(containers)}

\* C20: after any mouse-move with the left button not held the drag state is
\* None; that event neither moves the dragged window nor changes its state.
C20_ReleaseEndsDrag ==
  [][(MouseMoved /\ ~input'.is_mouse_down)
       => /\ drag_state' = NoDrag
          /\ (drag_state # NoDrag /\ dragged_window # NoId)
               => /\ containers'[dragged_window].state =
                       containers[dragged_window].state
                  /\ containers'[dragged_window].floating_placement =
                       containers[dragged_window].floating_placement
                  /\ to_rect(containers', dragged_window) =
                       to_rect(containers, dragged_window)]_vars

\* A drag that floated a tiling window has just been released.
C20_FloatedWindowDropped ==
  /\ input.op = "mouse_move"
  /\ ~input.is_mouse_down
  /\ input.dragged # NoId
  /\ drag_state = NoDrag
  /\ containers[input.dragged].state.tag = "Floating"
  /\ containers[input.dragged].prev_state = Tiling

-----------------------------------------------------------------------------
(* SpecSnap: animation tasks in flight while the windows found at start-up
   are dragged and the hide method is reloaded. Every event is followed by
   its pass. *)

HideConfigs ==
  {[Config(TRUE, <<2, 1000>>) EXCEPT !.hide_method = m] : m \in {"Cloak", "Hide"}}

InitSnap == Init /\ cfg = Config(TRUE, <<2, 1000>>)

SnapHandles == 1..MaxPopulate

NextSnap ==
  \/ Populate(SnapHandles, {"normal"})
  \/ ~Reconciled /\ PlatformSync({TRUE}, {NoHandle})
  \/ AnimStep
  \/ Reconciled /\ ReloadConfig(HideConfigs)
  \/ Reconciled /\ MouseMove({Pt(2, 5)}, {TRUE})

SpecSnap == InitSnap /\ [][NextSnap]_vars

\* Task k was polled in this step: it wrote, or it returned.
task_stepped(k) ==
  /\ k \in DOMAIN tasks'
  /\ tasks[k].status = "running"
  /\ \/ tasks'[k].writes > tasks[k].writes
     \/ tasks'[k].status \in {"done", "panicked"}

\* What a task holds from its launch on.
snapshot(task) ==
  [handle |-> task.handle, state |-> task.window_state,
   z_order |-> task.z_order, is_visible |-> task.is_visible,
   hide_method |-> task.hide_method,
   has_pending_dpi |-> task.has_pending_dpi, end_rect |-> task.end_rect]

\* C21: a step of an animation task leaves the container tree, the ledger,
\* the drag state and the handle-to-task map as they were; it issues no
\* platform call but set_position for its own handle, and each such write
\* carries the window state, z-order, visibility, hide method and pending-DPI
\* flag the task has held since its launch, whatever the tree and the
\* configuration have become.
C21_TaskWritesItsSnapshotOnly ==
  [][\A k \in DOMAIN tasks :
       task_stepped(k) =>
         /\ containers' = containers
         /\ pending_sync' = pending_sync
         /\ drag_state' = drag_state
         /\ animation_handles' = animation_handles
         /\ passLog' = <<>>
         /\ os'.foreground = os.foreground
         /\ snapshot(tasks'[k]) = snapshot(tasks[k])
         /\ \A h \in Handles :
              (lastPos'[h] # lastPos[h] \/ os'.frame[h] # os.frame[h]) =>
                /\ h = tasks[k].handle
                /\ lastPos'[h] =
                     PosCall(tasks[k].window_state, lastPos'[h].rect,
                             tasks[k].z_order, tasks[k].is_visible,
                             tasks[k].hide_method, tasks[k].has_pending_dpi, k)
                /\ os'.frame[h] = lastPos'[h].rect]_vars

\* A task wrote for a window after the window was floated by a drag and the
\* hide method was reloaded: the write carries Tiling and the old method.
C21_WroteAfterTreeAndConfigChanged ==
  \E h \in Handles :
    /\ lastPos[h].by # NoTask
    /\ lastPos[h].by \in DOMAIN tasks
    /\ tasks[lastPos[h].by].writes >= 2
    /\ lastPos[h].state = Tiling
    /\ lastPos[h].hide_method # cfg.hide_method
    /\ window_of(containers, h) # NoId
    /\ containers[window_of(containers, h)].state.tag = "Floating"

-----------------------------------------------------------------------------
(* SpecUnmanage: windows managed and unmanaged while their animation tasks
   are in flight. *)

\* The two native windows that come and go.
UnmanageHandles == {1, 2}

NextUnmanage ==
  \/ Populate(UnmanageHandles, {"normal"})
  \/ Reconciled /\ ManageWindow(UnmanageHandles, {"normal"}, {NoPoint}, {"none"})
  \/ Reconciled /\ UnmanageWindow(UnmanageHandles)
  \/ ~Reconciled /\ PlatformSync({TRUE}, {NoHandle})
  \/ AnimStep

SpecUnmanage == InitSnap /\ [][NextUnmanage]_vars

-----------------------------------------------------------------------------
(* SpecRetry: passes whose set_foreground the window system may reject,
   between events that change the focus (manage_window) and events that do
   not (the start of an Alt-drag). Every event is followed by its pass. *)

NextRetry ==
  \/ Populate(UnmanageHandles, {"normal"})
  \/ Reconciled /\ ManageWindow(UnmanageHandles, {"normal"}, {NoPoint}, {"none"})
  \/ ~Reconciled /\ PlatformSync(BOOLEAN, {NoHandle})
  \/ Reconciled /\ MouseMove({Pt(2, 5)}, {TRUE})

SpecRetry == InitStill /\ [][NextRetry]_vars

\* C23: a pass whose set_foreground was rejected completes, and the next pass
\* that finds the same window focused and the foreground of the window system
\* still another issues set_foreground for it again.
C23_RejectedFocusIsRetried ==
  [][/\ (\E i \in DOMAIN passLog' : passLog'[i].op = "set_foreground")
          => syncResult' = "ok"
     /\ (/\ syncResult' = "ok"
         /\ focused_container(containers) # NoId
         /\ is_window(containers, focused_container(containers))
         /\ os.refused = {focus_handle(containers, focused_container(containers))}
         /\ os.foreground # focus_handle(containers, focused_container(containers)))
        => \E i \in DOMAIN passLog' :
             /\ passLog'[i].op = "set_foreground"
             /\ passLog'[i].handle =
                  focus_handle(containers, focused_container(containers))]_vars

-----------------------------------------------------------------------------
(* SpecFail: passes in which platform calls fail: set_foreground rejected,
   windows destroyed before the pass reaches them. The workspace shown is
   switched, floating windows are made fullscreen and back. *)

FailKinds == {"normal", "fixed_size"}

InitFail == Init /\ cfg \in JumpConfigs

NextFail ==
  \/ Populate(UnmanageHandles, FailKinds)
  \/ Reconciled /\ ManageWindow(UnmanageHandles, FailKinds, {NoPoint}, {"none"})
  \/ Reconciled /\ FocusWorkspace
  \/ Reconciled /\ ToggleFullscreen
  \/ DestroyWindow(UnmanageHandles)
  \/ ~Reconciled /\ PlatformSync(BOOLEAN, {NoHandle})

SpecFail == InitFail /\ [][NextFail]_vars

\* A pass other than the one of populate was run in this step.
pass_run == syncResult' # "none" /\ monitors(containers) # <<>>

positions(call) == call.op \in {"set_z_order", "set_position", "spawn"}

\* The handles the pass z-ordered or positioned, in the order of the calls.
handles_updated(log) ==
  [i \in 1..Len(SelectSeq(log, positions)) |-> SelectSeq(log, positions)[i].handle]

\* The handles of the windows the pass has to go through, in its order.
handles_to_update(s) ==
  IF s.pending_sync.redraw # {} \/ s.pending_sync.reorder # {}
  THEN [i \in 1..Len(update_order(s, focused_container(s.containers))) |->
          s.containers[update_order(s, focused_container(s.containers))[i]].handle]
  ELSE <<>>

has_call(log, op, h) == \E i \in DOMAIN log : log[i].op = op /\ log[i].handle = h

\* C24: whichever platform calls fail in a pass (set_foreground rejected,
\* calls on the handle of a destroyed window), the pass goes through every
\* window it has to update, jumps the cursor and applies the effects when
\* they are queued, returns Ok and leaves the ledger empty.
C24_FailingCallsDoNotEndThePass ==
  [][pass_run =>
       /\ syncResult' = "ok"
       /\ pending_sync' = EmptyLedger
       /\ handles_updated(passLog') = handles_to_update(State)
       /\ (pending_sync.cursor_jump /\ cfg.cursor_jump_enabled)
            => has_call(passLog', "set_cursor_pos", NoHandle)
       /\ (/\ pending_sync.focused_effect_update \/ pending_sync.all_effects_update
           /\ is_window(containers, focused_container(containers)))
            => /\ has_call(passLog', "apply_window_effects",
                           focus_handle(containers, focused_container(containers)))
               /\ prev_effects_window'.id = focused_container(containers)]_vars

\* A pass whose set_foreground was rejected and whose first window was
\* destroyed went on to the next window and to the cursor jump.
C24_WentOnAfterFailures ==
  /\ syncResult = "ok"
  /\ os.refused # {}
  /\ pending_sync = EmptyLedger
  /\ \E i, j, k \in DOMAIN passLog :
       /\ i < j /\ j < k
       /\ positions(passLog[i]) /\ passLog[i].handle \notin os.alive
       /\ positions(passLog[j]) /\ passLog[j].handle \in os.alive
       /\ passLog[k].op = "set_cursor_pos"

\* C25: a pass that finds no focused container returns an error at once: it
\* issues no platform call, launches no animation task, emits no event, and
\* leaves the ledger, prev_effects_window, the tree with every window's
\* display state, and the window system as they were.
C25_NoFocusedContainerAbortsEarly ==
  [][(/\ syncResult' # "none"
      /\ focused_container(containers) = NoId
      /\ monitors(containers') = <<>>)
     => /\ syncResult' = "error"
        /\ passLog' = <<>>
        /\ tasks' = tasks
        /\ animation_handles' = animation_handles
        /\ pending_sync' = pending_sync
        /\ prev_effects_window' = prev_effects_window
        /\ containers' = containers
        /\ os' = os]_vars

\* A pass was run on the state that has no monitor yet.
C25_PassWithoutFocusedContainer ==
  /\ syncResult = "error"
  /\ focused_container(containers) = NoId
  /\ passLog = <<>>

-----------------------------------------------------------------------------
(* SpecRules: manage_window for windows of every kind, kept or dropped by
   the window rules; no pass runs, so the ledger keeps what was queued. *)

NextRules ==
  \/ Populate(Handles, NativeKinds)
  \/ ManageWindow(Handles, NativeKinds, CursorPoints, {"none"})
  \/ ManageDropped(Handles, NativeKinds, CursorPoints)

SpecRules == InitStill /\ [][NextRules]_vars

\* The window that manage_window has added to the tree in this step.
is_new_window(w) ==
  is_window(containers', w) /\ ~managed(containers, containers'[w].handle)

\* C26: a manage_window that succeeds and whose window the rules keep sets
\* focus_update and focused_effect_update, adds the window's workspace to
\* the reorder set and adds to the redraw set the parent of a Tiling window,
\* else the window itself, and emits WindowManaged; it queues nothing else.
\* When the rules drop the window the ledger is left as it was and no event
\* is emitted.
C26_ManageQueuesForKeptWindow ==
  [][/\ (manageResult' = "managed" /\ monitors(containers) # <<>>) =>
          /\ \E w \in Ids : is_new_window(w)
          /\ \A w \in Ids :
               is_new_window(w) =>
                 /\ pending_sync' =
                      [pending_sync EXCEPT
                         !.focus_update = TRUE,
                         !.focused_effect_update = TRUE,
                         !.reorder = @ \cup {workspace(containers', w)},
                         !.redraw = @ \cup {IF containers'[w].state = Tiling
                                            THEN containers'[w].parent ELSE w}]
                 /\ has_call(passLog', "WindowManaged", containers'[w].handle)
     /\ manageResult' = "dropped" =>
          /\ pending_sync' = pending_sync
          /\ passLog' = <<>>
          /\ \A w \in Ids : ~is_new_window(w)]_vars

\* A tiling window was managed into a split: the split, not the workspace
\* and not the window, was added to the redraw set.
C26_SplitQueuedForTilingWindow ==
  /\ manageResult = "managed"
  /\ \E w \in Ids :
       /\ is_window(containers, w)
       /\ focused_container(containers) = w
       /\ containers[w].state = Tiling
       /\ containers[containers[w].parent].kind = "split"
       /\ containers[w].parent \in pending_sync.redraw
       /\ w \notin pending_sync.redraw
       /\ has_call(passLog, "WindowManaged", containers[w].handle)

-----------------------------------------------------------------------------
(* Properties of the windows a pass updates. *)

\* C27: a completed pass that runs with focus_update set z-orders or
\* positions every Tiling or Floating window of the focused workspace that
\* shares the state variant of the workspace's focused descendant, also when
\* the redraw and the reorder set of the ledger are empty.
C27_FocusUpdateReordersWorkspace ==
  [][(pass_run /\ syncResult' = "ok" /\ pending_sync.focus_update) =>
       \A w \in front_of(containers,
                         workspace(containers, focused_container(containers)),
                         focused_descendant(
                           containers,
                           workspace(containers, focused_container(containers)))) :
         \E i \in DOMAIN passLog' :
           positions(passLog'[i]) /\ passLog'[i].handle = containers[w].handle]_vars

-----------------------------------------------------------------------------
(* SpecShow: windows shown on top or not, on two workspaces of which one is
   displayed; floating windows are made fullscreen and back, and the window
   system reports the windows shown and hidden. *)

InitShow == Init /\ cfg \in TopConfigs

NextShow ==
  \/ Populate(UnmanageHandles, FailKinds)
  \/ Reconciled /\ ManageWindow(UnmanageHandles, FailKinds, {NoPoint}, {"none"})
  \/ Reconciled /\ FocusWorkspace
  \/ Reconciled /\ ToggleFullscreen
  \/ Reconciled /\ DisplayCompleted
  \/ ~Reconciled /\ PlatformSync({TRUE}, {NoHandle})

SpecShow == InitShow /\ [][NextShow]_vars

shown_on_top(t, w) ==
  \/ t[w].state.tag = "Floating" /\ t[w].state.shown_on_top
  \/ t[w].state.tag = "Fullscreen" /\ t[w].state.shown_on_top

\* The z-order target of window w in the pass about to run on state s.
z_order_target(s, w) ==
  IF shown_on_top(s.containers, w) THEN ZTopMost
  ELSE IF w \notin windows_to_bring_to_front(s, focused_container(s.containers))
  THEN ZNormal
  ELSE IF w = focused_descendant(s.containers, workspace(s.containers, w))
  THEN ZNormal
  ELSE ZAfterWindow(
         s.containers[focused_descendant(s.containers,
                                         workspace(s.containers, w))].handle)

\* C28: every window a pass updates is given the z-order TopMost if it is
\* Floating or Fullscreen with shown_on_top, also when it is brought to the
\* front; otherwise, if it is brought to the front, Normal when it is the
\* focused descendant of its workspace and AfterWindow(that descendant's
\* handle) when it is not; otherwise Normal.
C28_ZOrderTarget ==
  [][pass_run =>
       \A i \in DOMAIN passLog' :
         positions(passLog'[i]) =>
           passLog'[i].z_order =
             z_order_target(State,
                            window_from_native(containers, passLog'[i].handle))]_vars

\* A window shown on top was brought to the front without being redrawn, and
\* was given TopMost.
C28_TopMostBroughtToFront ==
  \E i \in DOMAIN passLog :
    passLog[i].op = "set_z_order" /\ passLog[i].z_order = ZTopMost

\* The handles of a set of windows.
handles_of(t, ws) == {t[w].handle : w \in ws}

\* The position of the window of handle h in the global focus order.
focus_position(t, h) ==
  IndexOf(descendant_focus_order(t, Root), window_from_native(t, h))

\* C29: the windows a pass updates are the union of the windows expanded
\* from the redraw set and the bring-to-front set, each updated exactly once,
\* and of any two of them the more recently focused one is updated later, so
\* that the focused window comes last.
C29_UpdatedOnceInReverseFocusOrder ==
  [][(/\ pass_run
      /\ syncResult' = "ok"
      /\ pending_sync.redraw # {} \/ pending_sync.reorder # {}) =>
       /\ Range(handles_updated(passLog')) =
            handles_of(containers,
                       windows_to_redraw(State)
                         \cup windows_to_bring_to_front(
                                State, focused_container(containers)))
       /\ \A i, j \in DOMAIN handles_updated(passLog') :
            i < j =>
              /\ handles_updated(passLog')[i] # handles_updated(passLog')[j]
              /\ focus_position(containers, handles_updated(passLog')[i])
                   > focus_position(containers, handles_updated(passLog')[j])
       /\ focus_handle(containers, focused_container(containers))
            \in Range(handles_updated(passLog'))
            => handles_updated(passLog')[Len(handles_updated(passLog'))]
                 = focus_handle(containers, focused_container(containers))]_vars

\* A pass that redrew one window and only reordered two others, the focused
\* window last.
C29_ThreeUpdatedFocusedLast ==
  /\ syncResult = "ok"
  /\ Len(handles_updated(passLog)) = 3
  /\ Cardinality({i \in DOMAIN passLog : passLog[i].op = "set_z_order"}) = 2
  /\ handles_updated(passLog)[3]
       = focus_handle(containers, focused_container(containers))

\* The display state a redrawn window is given.
transition(ds, displayed) ==
  IF ds \in {"Hidden", "Hiding"} /\ displayed THEN "Showing"
  ELSE IF ds \in {"Shown", "Showing"} /\ ~displayed THEN "Hiding"
  ELSE ds

\* The calls redraw_containers makes on handle h.
redraw_calls(log, h) ==
  SelectSeq(log, LAMBDA c :
    /\ c.handle = h
    /\ c.op \in {"set_z_order", "set_position", "spawn", "mark_fullscreen",
                 "set_taskbar_visibility"})

\* C30: a pass takes every redrawn window from Hidden or Hiding to Showing
\* when its workspace is displayed, from Shown or Showing to Hiding when it
\* is not, and leaves its display state alone otherwise; the position write
\* is told the window is visible exactly when the new display state is
\* Showing or Shown. A window that is only reordered keeps its display state
\* and receives a set_z_order call and nothing else.
C30_DisplayStateTransition ==
  [][(/\ pass_run
      /\ syncResult' = "ok"
      /\ pending_sync.redraw # {} \/ pending_sync.reorder # {}) =>
       /\ \A w \in windows_to_redraw(State) :
            /\ containers'[w].display_state =
                 transition(containers[w].display_state,
                            is_displayed(containers, workspace(containers, w)))
            /\ \E i \in DOMAIN passLog' :
                 /\ passLog'[i].op = "set_position"
                 /\ passLog'[i].handle = containers[w].handle
                 /\ passLog'[i].is_visible
                      = (containers'[w].display_state \in {"Showing", "Shown"})
       /\ \A w \in windows_to_bring_to_front(State, focused_container(containers))
                     \ windows_to_redraw(State) :
            /\ containers'[w].display_state = containers[w].display_state
            /\ Len(redraw_calls(passLog', containers[w].handle)) = 1
            /\ redraw_calls(passLog', containers[w].handle)[1].op
                 = "set_z_order"]_vars

\* One pass showed the windows of one workspace and hid those of the other.
C30_OneShowingOneHiding ==
  /\ syncResult = "ok"
  /\ \E v, w \in Ids, i, j \in DOMAIN passLog :
       /\ is_window(containers, v) /\ is_window(containers, w)
       /\ containers[v].display_state = "Showing"
       /\ containers[w].display_state = "Hiding"
       /\ passLog[i].op = "set_position" /\ passLog[j].op = "set_position"
       /\ passLog[i].handle = containers[v].handle /\ passLog[i].is_visible
       /\ passLog[j].handle = containers[w].handle /\ ~passLog[j].is_visible

-----------------------------------------------------------------------------
(* SpecFull: windows found fullscreen when they are managed, floating
   windows made fullscreen and back, with fullscreen windows maximized by
   the configuration or not. *)

FullKinds == {"fixed_size", "fullscreen"}

InitFull == Init /\ cfg \in FullConfigs

NextFull ==
  \/ Populate(UnmanageHandles, FullKinds)
  \/ Reconciled /\ ManageWindow(UnmanageHandles, FullKinds, {NoPoint}, {"none"})
  \/ Reconciled /\ ToggleFullscreen
  \/ ~Reconciled /\ PlatformSync({TRUE}, {NoHandle})

SpecFull == InitFull /\ [][NextFull]_vars

\* The mark_fullscreen calls of a pass on handle h.
marks(log, h) ==
  SelectSeq(log, LAMBDA c : c.op = "mark_fullscreen" /\ c.handle = h)

\* The pass marked every redrawn window for which calls(w) holds, and no
\* other, each with the flag set exactly when the window is fullscreen.
marked_when(calls(_)) ==
  (pass_run /\ syncResult' = "ok") =>
    \A w \in windows_to_redraw(State) :
      /\ Len(marks(passLog', containers[w].handle)) = (IF calls(w) THEN 1 ELSE 0)
      /\ \A i \in DOMAIN marks(passLog', containers[w].handle) :
           marks(passLog', containers[w].handle)[i].is_visible
             = (containers[w].state.tag = "Fullscreen")

enters_fullscreen(w) ==
  containers[w].state.tag = "Fullscreen" /\ ~containers[w].state.maximized

\* C31: for every redrawn window mark_fullscreen is called if and only if
\* its state is Fullscreen with maximized = false, whatever its previous
\* state and also when it has none, or its previous state is Fullscreen and
\* its state is not; the argument is true exactly when the state is
\* Fullscreen.
C31_MarkedOnAnyFullscreen ==
  [][marked_when(LAMBDA w :
       \/ enters_fullscreen(w)
       \/ /\ containers[w].prev_state.tag = "Fullscreen"
          /\ containers[w].state.tag # "Fullscreen")]_vars

\* C31 as amended: for every redrawn window mark_fullscreen is called if and
\* only if the window has a previous state and either its state is
\* Fullscreen with maximized = false or its previous state is Fullscreen;
\* the argument is true exactly when the state is Fullscreen.
C31_MarkedOnFullscreenTransition ==
  [][marked_when(LAMBDA w :
       /\ containers[w].prev_state # NoState
       /\ \/ enters_fullscreen(w)
          \/ containers[w].prev_state.tag = "Fullscreen")]_vars

\* A window managed as fullscreen and not maximized was redrawn and not
\* marked.
C31_NewFullscreenNotMarked ==
  /\ syncResult = "ok"
  /\ \E v \in Ids :
       /\ is_window(containers, v)
       /\ containers[v].state.tag = "Fullscreen" /\ ~containers[v].state.maximized
       /\ containers[v].prev_state = NoState
       /\ has_call(passLog, "set_position", containers[v].handle)
       /\ ~has_call(passLog, "mark_fullscreen", containers[v].handle)

-----------------------------------------------------------------------------
(* SpecFallback: the insertion planner among tiling and floating windows,
   with the cursor inside the focused window, outside it, or not to be
   read. *)

FallbackPoints == {Pt(10, 6), Pt(2, 5), NoPoint}

NextFallback ==
  \/ Populate(Handles, ManageKinds)
  \/ ManageKindAtCursor(Handles, ManageKinds, FallbackPoints)

SpecFallback == InitStill /\ [][NextFallback]_vars

\* The state of the window just managed.
new_state == containers'[window_of(containers', input'.handle)].state

focused_workspace == workspace(containers, focused_container(containers))

\* The focused container if it is a tiling window, else the first tiling
\* window in the focus order of the focused workspace, if any.
anchor ==
  IF is_tiling_window(containers, focused_container(containers))
  THEN focused_container(containers)
  ELSE IF \E i \in DOMAIN descendant_focus_order(containers, focused_workspace) :
            is_tiling_window(containers,
                             descendant_focus_order(containers, focused_workspace)[i])
  THEN descendant_focus_order(containers, focused_workspace)[
         CHOOSE i \in DOMAIN descendant_focus_order(containers, focused_workspace) :
           /\ is_tiling_window(
                containers, descendant_focus_order(containers, focused_workspace)[i])
           /\ \A j \in 1..(i - 1) :
                ~is_tiling_window(
                   containers,
                   descendant_focus_order(containers, focused_workspace)[j])]
  ELSE NoId

\* C32: a new Tiling window to which the cursor-quadrant rule does not apply
\* (the focused container is not a tiling window, or the cursor is not inside
\* its rect) is inserted right after the anchor in the anchor's parent, the
\* anchor being the focused container if it is a tiling window and else the
\* first tiling window in the focus order of the focused workspace; without
\* an anchor, or when the new window is not Tiling, it is appended to the
\* focused workspace.
C32_FallbackInsertsAfterAnchor ==
  [][(/\ input'.op = "manage_window"
      /\ manageResult' = "managed"
      /\ ~in_focused_rect(new_state, containers, focused_container(containers),
                          input'.mouse_pos)) =>
       IF new_state = Tiling /\ anchor # NoId
       THEN /\ new_parent = containers[anchor].parent
            /\ new_index = index(containers, anchor) + 1
            /\ index(containers', anchor) = index(containers, anchor)
       ELSE /\ new_parent = focused_workspace
            /\ new_index = child_count(containers, focused_workspace)]_vars

\* A tiling window was managed while a floating window had the focus, and
\* was put between two windows of the workspace, right after a tiling one.
C32_InsertedAfterUnfocusedAnchor ==
  /\ input.op = "manage_window"
  /\ manageResult = "managed"
  /\ containers[window_of(containers, input.handle)].state = Tiling
  /\ Len(descendant_focus_order(containers, WorkspaceId)) = 3
  /\ containers[descendant_focus_order(containers, WorkspaceId)[2]].state.tag
       = "Floating"
  /\ containers[window_of(containers, input.handle)].parent = WorkspaceId
  /\ index(containers, window_of(containers, input.handle)) = 1
  /\ is_tiling_window(containers, containers[WorkspaceId].children[1])

-----------------------------------------------------------------------------
(* SpecRemoval: windows of every state managed and unmanaged. *)

\* The three native windows that come and go.
RemovalHandles == {1, 2, 3}

\* What the first two of them are found to be; the third may be anything.
RemovalKinds == {"fixed_size", "minimized"}
OtherKinds == {"normal", "minimized"}

NextRemoval ==
  \/ Populate({1}, RemovalKinds)
  \/ Reconciled /\ ManageWindow({1}, RemovalKinds, {NoPoint}, {"none"})
  \/ Reconciled /\ ManageWindow({2}, OtherKinds, {NoPoint}, {"none"})
  \/ Reconciled /\ ManageWindow({3}, NativeKinds, {NoPoint}, {"none"})
  \/ Reconciled /\ UnmanageRecorded(RemovalHandles)
  \/ ~Reconciled /\ PlatformSync({TRUE}, {NoHandle})

SpecRemoval == InitStill /\ [][NextRemoval]_vars

\* The focus order of the workspace of window w, without w.
order_left(t, w) ==
  SelectSeq(descendant_focus_order(t, workspace(t, w)), LAMBDA c : c # w)

\* c is the first element of sq for which P holds.
is_first(sq, c, P(_)) ==
  \E i \in DOMAIN sq : sq[i] = c /\ P(c) /\ \A j \in 1..(i - 1) : ~P(sq[j])

has_kind_of(t, w, c) ==
  /\ is_window(t, c)
  /\ \/ t[c].state.tag = "Tiling" /\ t[w].state.tag = "Tiling"
     \/ t[c].state.tag = "Floating" /\ t[w].state.tag = "Floating"
     \/ t[c].state.tag = "Fullscreen" /\ t[w].state.tag = "Fullscreen"

not_minimized(t, c) == is_window(t, c) /\ t[c].state.tag # "Minimized"

\* c is what the removal of the focused window w leaves to focus.
is_target(t, w, c) ==
  IF \E d \in Range(order_left(t, w)) : has_kind_of(t, w, d)
  THEN is_first(order_left(t, w), c, LAMBDA d : has_kind_of(t, w, d))
  ELSE IF \E d \in Range(order_left(t, w)) : not_minimized(t, d)
  THEN is_first(order_left(t, w), c, LAMBDA d : not_minimized(t, d))
  ELSE IF order_left(t, w) # <<>> THEN c = order_left(t, w)[1]
  ELSE c = workspace(t, w)

\* window w is unmanaged in this step.
unmanaged(w) ==
  /\ is_window(containers, w)
  /\ ~is_detached(containers, w)
  /\ containers'[w].kind = "none" \/ is_detached(containers', w)

\* C33: focus_target_after_removal returns nothing unless the removed window
\* is the focused container; for the focused window it returns, from the
\* focus order of its workspace without it, the first window of its kind of
\* state (Tiling, Floating or Fullscreen), else the first window that is not
\* minimized, else the first descendant left, else the workspace, and never
\* the removed window. The window unmanaged leaves the focus where it was in
\* the first case, and on that target in the second.
C33_FocusTargetAfterRemoval ==
  [][\A w \in Ids : unmanaged(w) =>
       IF focused_container(containers) # w
       THEN /\ focus_target_after_removal(containers, w) = NoId
            /\ focused_container(containers') = focused_container(containers)
            /\ pending_sync'.focus_update = pending_sync.focus_update
       ELSE /\ is_target(containers, w, focus_target_after_removal(containers, w))
            /\ focus_target_after_removal(containers, w) # w
            /\ focused_container(containers')
                 = focus_target_after_removal(containers, w)
            /\ pending_sync'.focus_update]_vars

\* The focused floating window was unmanaged and the focus went past a more
\* recently focused tiling window to the floating window left.
C33_FocusWentToSameKind ==
  /\ input.op = "unmanage_window"
  /\ input.had_focus
  /\ input.state.tag = "Floating"
  /\ Len(descendant_focus_order(containers, WorkspaceId)) = 2
  /\ containers[descendant_focus_order(containers, WorkspaceId)[1]].state.tag
       = "Floating"
  /\ containers[descendant_focus_order(containers, WorkspaceId)[2]].state.tag
       = "Tiling"
  /\ containers[descendant_focus_order(containers, WorkspaceId)[1]].handle = 1
  /\ containers[descendant_focus_order(containers, WorkspaceId)[2]].handle = 2

-----------------------------------------------------------------------------
(* SpecDefault: animations with the default settings, 150 ms at 144 fps. *)

InitDefault == Init /\ cfg \in DefaultConfigs

NextDefault ==
  \/ Populate(UnmanageHandles, {"normal"})
  \/ Reconciled /\ ManageWindow(UnmanageHandles, {"normal"}, {NoPoint}, {"none"})
  \/ ~Reconciled /\ PlatformSync({TRUE}, {NoHandle})
  \/ AnimStep

SpecDefault == InitDefault /\ [][NextDefault]_vars

\* a / b rounded to the nearest integer, for a >= 0 and b > 0.
Rounded(a, b) == (2 * a + b) \div (2 * b)

\* C34: with duration_ms > 0 and fps >= 1, an animation that interpolates
\* performs round(duration_ms * fps / 1000) steps, duration_ms / steps
\* milliseconds apart; the defaults, 150 ms at 144 fps, give 22 steps.
C34_StepsAreRoundedFrameCount ==
  \A k \in DOMAIN tasks :
    (/\ tasks[k].pc = "ticking"
     /\ tasks[k].duration_ms > 0
     /\ tasks[k].fps >= 1) =>
      /\ tasks[k].steps = Rounded(tasks[k].duration_ms * tasks[k].fps, 1000)
      /\ interval_ms(tasks[k].fps) = tasks[k].duration_ms \div tasks[k].steps
      /\ (tasks[k].duration_ms = 150 /\ tasks[k].fps = 144) => tasks[k].steps = 22

-----------------------------------------------------------------------------
(* SpecNear: animations of windows found close to where the layout puts
   them. *)

NearFrames == {Rect(1, 1, 11, 11), Rect(1, 0, 12, 12), Rect(1, 0, 14, 12)}

NextNear ==
  \/ NativeMove(UnmanageHandles, NearFrames)
  \/ Populate(UnmanageHandles, {"normal"})
  \/ Reconciled /\ ManageWindow(UnmanageHandles, {"normal"}, {NoPoint}, {"none"})
  \/ ~Reconciled /\ PlatformSync({TRUE}, {NoHandle})
  \/ AnimStep

SpecNear == InitSnap /\ [][NextNear]_vars

\* Task k takes its first poll in this step and finds its window at a rect
\* for which near(start, end) holds: it returns at once, having written the
\* final rect and nothing else.
exits_early_when(near(_, _)) ==
  \A k \in DOMAIN tasks :
    (/\ tasks[k].status = "running" /\ tasks[k].pc = "spawned"
     /\ k \in DOMAIN tasks' /\ tasks'[k].pc # "spawned"
     /\ near(os.frame[tasks[k].handle], tasks[k].end_rect)) =>
      /\ tasks'[k].status = "done"
      /\ tasks'[k].writes = 1
      /\ lastPos'[tasks[k].handle].by = k
      /\ lastPos'[tasks[k].handle].rect = tasks[k].end_rect
      /\ os'.frame[tasks[k].handle] = tasks[k].end_rect

\* C35: when the deltas of the left, top, right and bottom edges between the
\* starting rect and the final rect of an animation are each below 2 px, the
\* task does not interpolate and issues exactly one set_position, with the
\* final rect.
C35_EarlyExitOnEdges ==
  [][exits_early_when(LAMBDA a, b :
       /\ Abs(a.left - b.left) < 2 /\ Abs(a.top - b.top) < 2
       /\ Abs(a.right - b.right) < 2 /\ Abs(a.bottom - b.bottom) < 2)]_vars

\* C35 as amended: when the deltas of x, y, width and height between the
\* starting rect and the final rect of an animation are each below 2 px, the
\* task does not interpolate and issues exactly one set_position, with the
\* final rect.
C35_EarlyExitOnOriginAndSize ==
  [][exits_early_when(LAMBDA a, b :
       /\ Abs(a.left - b.left) < 2 /\ Abs(a.top - b.top) < 2
       /\ Abs(Width(a) - Width(b)) < 2
       /\ Abs(Height(a) - Height(b)) < 2)]_vars

\* A task returned after one write, the final rect, without interpolating.
C35_ReturnedAfterOneWrite ==
  \E k \in DOMAIN tasks :
    /\ tasks[k].status = "done"
    /\ tasks[k].writes = 1
    /\ steps_of(tasks[k].duration_ms, tasks[k].fps) > 0
    /\ lastPos[tasks[k].handle].by = k
    /\ lastPos[tasks[k].handle].rect = tasks[k].end_rect

\* C36: a pass only ever sets the display state of a window to Showing or
\* Hiding: it never moves a window to Shown or to Hidden, and a window that
\* is Showing on a displayed workspace, or Hiding on one that is not, is
\* left so by every further pass, until something other than the pass
\* completes the transition.
C36_PassLeavesTransitionsOpen ==
  [][pass_run =>
       \A w \in Ids : is_window(containers, w) =>
         /\ containers'[w].display_state # containers[w].display_state
              => containers'[w].display_state \in {"Showing", "Hiding"}
         /\ (/\ containers[w].display_state = "Showing"
             /\ is_displayed(containers, workspace(containers, w)))
              => containers'[w].display_state = "Showing"
         /\ (/\ containers[w].display_state = "Hiding"
             /\ ~is_displayed(containers, workspace(containers, w)))
              => containers'[w].display_state = "Hiding"]_vars

\* A window that was Showing was made fullscreen and redrawn by a pass of
\* its own, and is Showing still.
C36_RedrawnStillShowing ==
  /\ syncResult = "ok"
  /\ \A i \in DOMAIN passLog : passLog[i].op # "set_foreground"
  /\ \E w \in Ids :
       /\ is_window(containers, w)
       /\ containers[w].display_state = "Showing"
       /\ containers[w].state.tag = "Fullscreen"
       /\ has_call(passLog, "set_position", containers[w].handle)

-----------------------------------------------------------------------------
(* Properties of the drag once it is under way, under SpecDrag. *)

\* C37: Alt is needed only to start a drag. While the drag state is Dragging,
\* a mouse-move with the left button held and Alt released is a drag step
\* like any other: the dragged window stays the dragged window, the last
\* point becomes the event point, a floating window moves by the delta, and
\* the event is consumed (no focus change). The drag ends on a mouse-move with
\* the button up and on nothing else.
C37_AltOnlyStartsDrag ==
  [][/\ (/\ MouseMoved /\ input'.is_mouse_down /\ ~input'.alt_down
         /\ drag_state # NoDrag) =>
          /\ drag_state' = Dragging(drag_state.window_id, input'.point)
          /\ focused_container(containers') = focused_container(containers)
          /\ pending_sync'.focus_update = pending_sync.focus_update
          /\ (/\ dragged_window # NoId
              /\ containers[dragged_window].state.tag = "Floating") =>
               /\ to_rect(containers', dragged_window).left =
                    to_rect(containers, dragged_window).left
                      + (input'.point.x - drag_state.start_point.x)
               /\ to_rect(containers', dragged_window).top =
                    to_rect(containers, dragged_window).top
                      + (input'.point.y - drag_state.start_point.y)
               /\ dragged_window \in pending_sync'.redraw
     /\ (drag_state # NoDrag /\ drag_state' = NoDrag) =>
          MouseMoved /\ ~input'.is_mouse_down]_vars

\* A floating window under drag was moved to another point with the button
\* held and Alt released.
C37_DraggedWithAltReleased ==
  /\ input.op = "mouse_move"
  /\ input.is_mouse_down /\ ~input.alt_down
  /\ input.dragged # NoId
  /\ drag_state = Dragging(input.dragged, input.point)
  /\ is_window(containers, input.dragged)
  /\ containers[input.dragged].state.tag = "Floating"
  /\ input.dragged \in pending_sync.redraw
  /\ containers[input.dragged].floating_placement.left
       # os.frame[containers[input.dragged].handle].left

-----------------------------------------------------------------------------
(* Events sent to subscribers: before initialization and while paused. *)

\* The pause toggle: is_paused flips, then PauseChanged is emitted.
toggle_pause(s) ==
  emit_event([s EXCEPT !.is_paused = ~@], "PauseChanged", NoHandle)

TogglePause == Become(toggle_pause(fresh(State)))

NextPause ==
  \/ Populate(UnmanageHandles, FailKinds)
  \/ Reconciled /\ ManageWindow(UnmanageHandles, FailKinds, {NoPoint}, {"none"})
  \/ Reconciled /\ UnmanageWindow(UnmanageHandles)
  \/ Reconciled /\ TogglePause
  \/ ~Reconciled /\ PlatformSync({TRUE}, {NoHandle})

SpecPause == InitStill /\ [][NextPause]_vars

WmEvents == {"WindowManaged", "FocusChanged", "PauseChanged"}

\* The events a step sent, in order.
events_sent(log) == SelectSeq(log, LAMBDA c : c.op \in WmEvents)

focus_was_synced(log) == \E i \in DOMAIN log : log[i].op = "set_foreground"

\* C38: a step that starts before has_initialized is set sends no event, so
\* the WindowManaged and FocusChanged of populate are dropped; a step that
\* ends with is_paused set sends nothing but PauseChanged.
C38_EventsGated ==
  [][/\ ~has_initialized => events_sent(passLog') = <<>>
     /\ is_paused' =>
          \A i \in DOMAIN events_sent(passLog') :
            events_sent(passLog')[i].op = "PauseChanged"]_vars

\* A pass run while paused moved the focus and sent no FocusChanged.
C38_FocusSyncedWhilePaused ==
  /\ has_initialized
  /\ is_paused
  /\ focus_was_synced(passLog)
  /\ events_sent(passLog) = <<>>

-----------------------------------------------------------------------------
(* SpecDetach: a pass fails and leaves its ledger; a window it holds is
   unmanaged before the next pass. *)

\* The windows the ledger holds that are no longer in the tree.
queued_detached(s) ==
  {c \in s.pending_sync.redraw :
     is_window(s.containers, c) /\ is_detached(s.containers, c)}

\* What the pass was called with, and the handles of the detached windows
\* its ledger held.
SyncInput(s, in) ==
  [op |-> "platform_sync", rect_err |-> in.rect_err,
   detached |-> {s.containers[c].handle : c \in queued_detached(s)}]

\* platform_sync with what it was given kept in input.
PlatformSyncRecorded(accepts, errs) ==
  \E accepted \in accepts, rect_err \in errs :
    Become(recorded(platform_sync(fresh(State), SyncIn(accepted, rect_err)),
                    SyncInput(State, SyncIn(accepted, rect_err))))

DetachConfigs == StillConfigs \cup {Config(TRUE, <<2, 1000>>)}

InitDetach == Init /\ cfg \in DetachConfigs

NextDetach ==
  \/ Populate(UnmanageHandles, FailKinds)
  \/ Reconciled /\ ManageWindow(UnmanageHandles, FailKinds, {NoPoint}, {"none"})
  \/ (Reconciled \/ syncResult = "error") /\ UnmanageWindow(UnmanageHandles)
  \/ ~Reconciled /\ PlatformSyncRecorded({TRUE}, UnmanageHandles \cup {NoHandle})

SpecDetach == InitDetach /\ [][NextDetach]_vars

RedrawOps == {"set_position", "spawn", "mark_fullscreen", "set_taskbar_visibility"}

\* C39: a window that is queued for redraw and detached from the tree when
\* the pass runs is none of the windows the pass goes through, no
\* set_position, animation, mark_fullscreen or taskbar call of the pass is for
\* it, and the pass is not failed by it.
C39_DetachedNotRedrawn ==
  [][input'.op = "platform_sync" =>
       \A c \in queued_detached(State) :
         /\ c \notin Range(update_order(State, focused_container(containers)))
         /\ ~managed(containers, containers[c].handle) =>
              \A i \in DOMAIN passLog' :
                passLog'[i].handle = containers[c].handle =>
                  passLog'[i].op \notin RedrawOps
         /\ (input'.rect_err = NoHandle /\ focused_container(containers) # NoId)
              => syncResult' = "ok"]_vars

\* A pass whose ledger held a detached window has redrawn another window and
\* has completed.
C39_PassedOverDetached ==
  /\ input.op = "platform_sync"
  /\ input.detached # {}
  /\ syncResult = "ok"
  /\ \E i \in DOMAIN passLog :
       passLog[i].op \in RedrawOps /\ passLog[i].handle \notin input.detached

-----------------------------------------------------------------------------
(* SpecBorder: effects updates with a border enabled, and the delayed border
   writes they leave behind. *)

\* Passes are held back while this many delayed writes are waiting.
MaxDelayed == 2

BorderStep ==
  /\ border_tasks # <<>>
  /\ Become(reissue_border(fresh(State)))

InitBorder == Init /\ cfg \in BorderConfigs

NextBorder ==
  \/ Populate(UnmanageHandles, FailKinds)
  \/ Reconciled /\ ManageWindow(UnmanageHandles, FailKinds, {NoPoint}, {"none"})
  \/ Reconciled /\ UnmanageWindow(UnmanageHandles)
  \/ /\ ~Reconciled
     /\ Len(border_tasks) < MaxDelayed
     /\ PlatformSync({TRUE}, {NoHandle})
  \/ BorderStep

SpecBorder == InitBorder /\ [][NextBorder]_vars

\* C40: the border colour visible on a window is the one its most recent
\* effects update chose: no delayed write of an earlier update lands after the
\* write of a later one.
C40_BorderIsLatestChoice ==
  \A h \in Handles :
    lastBorder[h] # "unset" => os.border[h] = lastBorder[h]

====
